---- MODULE Spec2Model ----
(***************************************************************************)
(* Model of the Discogs synchronisation pipeline of Analog-Vibes-App:      *)
(*   SyncService   (src/src/services/supabaseService.ts, 1043-1426)        *)
(*   CacheService  (src/unnamed/part_014, 366-711)                         *)
(*   DiscogsService (src/src/services/supabaseService.ts, 1558-1956)       *)
(* Four specifications share the variables:                                *)
(*   Spec        SyncService.getVinylRecords / syncFromDiscogs over the    *)
(*               local store, with concurrent callers and a clock          *)
(*   CacheSpec   the CacheService operations over the two store keys       *)
(*   EnrichSpec  DiscogsService.enrichWithMasterData, item by item         *)
(*   QueueSpec   DiscogsService.makeRequest: PQueue + pRetry               *)
(***************************************************************************)
EXTENDS Integers, Sequences, FiniteSets, TLC

\* ---------------------------------------------------------------- bounds
\* how many times the clock advances
MaxTicks == 2
\* the largest number of items the remote collection holds
MaxItems == 2
\* the largest number of releases handed to enrichWithMasterData
MaxReleases == 3
\* the number of distinct master ids
NumMasters == 2
\* the number of makeRequest calls
NumRequests == 2
\* the largest configured rate limit (VITE_DISCOGS_RATE_LIMIT_AUTHENTICATED)
MaxRateLimit == 2
\* the largest number of pages of the remote collection
MaxPages == 4
\* the number of releases of a full page (per_page, scaled down)
PerPage == 2
\* the longest genre list of a release or a master
MaxGenres == 2
\* the longest text given to cleanText
MaxTextLen == 5
\* the longest tracklist of a release
MaxTracks == 2
MaxRuns == 2
MaxCalls == 2
SmallCollection == 3

\* ------------------------------------------------------ program constants
\* CacheService.CACHE_EXPIRY_HOURS
CACHE_EXPIRY_HOURS == 24

\* the clock advances in steps of this many hours: one expiry period
HoursPerTick == CACHE_EXPIRY_HOURS
MaxClock == MaxTicks * HoursPerTick

\* callers of SyncService.getVinylRecords: one at a time, or two concurrently
OneCaller == {"c1"}
TwoCallers == {"c1", "c2"}

\* ids of catalog items
ItemIds == 1 .. MaxItems

\* label names an item can carry; "" makes the transformed record invalid
Labels == {"", "Blue Note"}

\* an optional value: <<>> is null/undefined, <<x>> is x
None == <<>>
Some(x) == <<x>>
IsSome(o) == Len(o) = 1
Val(o) == o[1]

VARIABLES
    \* SyncService
    isSync,         \* SyncService.isSync
    cancelSync,     \* SyncService.cancelSync
    call,           \* per caller: position in getVinylRecords/syncFromDiscogs and its locals
    \* CacheService (the localforage store) and the clock
    storeRecords,   \* key 'vinyl_collection': None or Some(list of records)
    storeMeta,      \* key 'collection_metadata': None or Some(metadata)
    now,            \* Date.now(), in hours
    lastOp,         \* CacheSpec: the last CacheService operation, its id argument, how it ended
    \* DiscogsService.enrichWithMasterData
    masterCache,    \* the per-run Map masterId -> master, as the set of cached master ids
    item,           \* per item of the run: position in the batch callback and its locals
    batchStart,     \* the loop variable i
    enrichPc,       \* position in the loop of enrichWithMasterData
    enriched,       \* enrichedReleases
    masterFetches,  \* how many getMasterRelease requests each master id has received
    \* DiscogsService.makeRequest: PQueue and pRetry
    rateLimit,      \* intervalCap, from VITE_DISCOGS_RATE_LIMIT_AUTHENTICATED
    intervalCount,  \* PQueue: tasks started in the current interval
    httpInInterval, \* HTTP attempts started in the current interval
    req,            \* per request: position in makeRequest and its attempts
    \* DiscogsService.getAllUserCollection
    fetchPc,        \* position in getAllUserCollection
    totalPages,     \* firstPage.pagination.pages
    page,           \* per page: the state of its getUserCollection promise and its releases
    allReleases,    \* allReleases
    \* dataTransform
    input,          \* the arguments of the function under study
    output,         \* what it has returned: None or Some(result), or the list of results
    \* usePublicCollection
    pubIsSyncing,   \* the state isSyncing, as committed
    pubCaptured,    \* the isSyncing that the current syncFromDiscogs callback has captured
    pubLoading,     \* state.isLoading
    pipeline,       \* per started syncFromDiscogs run: its position
    \* useVinylCollection
    hookPc,         \* per syncCollection call: its position
    isLoading,      \* state.isLoading
    syncProgress,   \* state.syncProgress: None or Some(phase)
    \* randomPicker
    suggestionHistory,  \* localStorage['analog-vibes-suggestion-history']
    storageMode,    \* localStorage: usable, or setItem throws, or getItem and setItem throw
    lastPick        \* the last getRandomSuggestion call: its options and its result

syncVars == <<isSync, cancelSync, call>>
storeVars == <<storeRecords, storeMeta, now, lastOp>>
enrichVars == <<masterCache, item, batchStart, enrichPc, enriched, masterFetches>>
queueVars == <<rateLimit, intervalCount, httpInInterval, req>>
pageVars == <<fetchPc, totalPages, page, allReleases>>
xformVars == <<input, output>>
pubVars == <<pubIsSyncing, pubCaptured, pubLoading, pipeline>>
vinylVars == <<hookPc, isLoading, syncProgress>>
pickerVars == <<suggestionHistory, storageMode, lastPick>>
uiVars == <<pubVars, vinylVars, pickerVars>>
otherVars == <<pageVars, xformVars, uiVars>>
coreVars == <<syncVars, storeVars, enrichVars, queueVars>>
notPageVars == <<coreVars, xformVars, uiVars>>
notXformVars == <<coreVars, pageVars, uiVars>>
vars == <<isSync, cancelSync, call, storeRecords, storeMeta, now, lastOp,
          masterCache, item, batchStart, enrichPc, enriched, masterFetches,
          rateLimit, intervalCount, httpInInterval, req,
          fetchPc, totalPages, page, allReleases, input, output,
          pubIsSyncing, pubCaptured, pubLoading, pipeline,
          hookPc, isLoading, syncProgress, suggestionHistory, storageMode, lastPick>>

\* ------------------------------------------------------------ sequences
SeqIds(s) == {s[i].id : i \in 1 .. Len(s)}

\* all sequences over S of length at most n
SeqsUpTo(S, n) == UNION {[1 .. k -> S] : k \in 0 .. n}

\* lists without a repeated id
DistinctIds(s) == \A i, j \in 1 .. Len(s) : s[i].id = s[j].id => i = j

\* ------------------------------------------------------------ data
\* a normalized record, reduced to the two fields the pipeline branches on:
\* the id and the label (one of the required fields of validateVinylRecord)
Record == [id : ItemIds, label : Labels]

\* a raw catalog item: basic_information.id and labels[0], which is the entry
\* with its name, or null in a malformed response
RawItem == [id : ItemIds, label : {None} \cup {Some(l) : l \in Labels}]

\* what the remote collection endpoint can return: the item at position i has id i
RemoteCollections == {s \in SeqsUpTo(RawItem, MaxItems) : \A i \in 1 .. Len(s) : s[i].id = i}

\* the remote collections of the two-caller specification: empty, or one item
\* with or without a label
SmallCollections == {s \in RemoteCollections : Len(s) <= 1}

\* the record lists a backup can hold: ids in increasing order
RecordLists ==
    {s \in SeqsUpTo(Record, MaxItems) : \A i, j \in 1 .. Len(s) : i < j => s[i].id < s[j].id}

\* CacheMetadata, reduced to lastSync and totalRecords (version, syncDuration
\* and errors are written and never read by the modelled code)
Metadata(t, n) == [lastSync |-> t, totalRecords |-> n]

ClockValues == {t \in 0 .. MaxClock : t % HoursPerTick = 0}

\* ------------------------------------------------------------ CacheService
\* maxAge of isCacheValid, in hours (the code multiplies by 60 * 60 * 1000 and
\* compares milliseconds)
MaxAge == CACHE_EXPIRY_HOURS

IsCacheValidLe(meta, t) == IsSome(meta) /\ (t - Val(meta).lastSync) <= MaxAge

\* CacheService.isCacheValid: metadata exists and cacheAge < maxAge
IsCacheValid(meta, t) == IsSome(meta) /\ (t - Val(meta).lastSync) < MaxAge

GetCachedCollectionFresh(recs) == IF IsCacheValid(storeMeta, now) THEN recs ELSE None

\* CacheService.getCachedCollection: the stored list, or null
GetCachedCollection(recs) == recs

\* CacheService.getMetadata
GetMetadata(meta) == meta

\* the two setItem calls of cacheCollection run under Promise.all: each lands
\* or fails on its own (wr, wm), and the call throws unless both landed
CacheCollectionRecords(old, recs, wr) == IF wr THEN Some(recs) ELSE old
CacheCollectionMeta(old, recs, t, wm) == IF wm THEN Some(Metadata(t, Len(recs))) ELSE old

\* ------------------------------------------------------------ dataTransform
\* transformDiscogsVinylRelease reads releaseData.labels[0].name, which throws
\* a TypeError when labels[0] is null
TransformThrows(it) == it.label = None

\* transformDiscogsToVinylRecord, on the reduced item
TransformDiscogsToVinylRecord(it) == [id |-> it.id, label |-> Val(it.label)]

\* the forEach of syncFromDiscogs: a release whose transformation throws is
\* logged and left out of transformedRecords
TransformAll(items) ==
    LET transformable == SelectSeq(items, LAMBDA it : ~TransformThrows(it))
    IN [i \in 1 .. Len(transformable) |-> TransformDiscogsToVinylRecord(transformable[i])]

\* validateVinylRecord: every required field is truthy
ValidateVinylRecord(r) == r.label # ""

\* filterValidRecords
FilterValidRecords(records) == SelectSeq(records, ValidateVinylRecord)

\* ------------------------------------------------------------ SyncService
\* a caller that has not invoked getVinylRecords
IdleCall ==
    [pc |-> "idle", forceRefresh |-> FALSE, errors |-> <<>>, releases |-> <<>>, valid |-> <<>>, lastSync |-> 0,
     result |-> None, records |-> <<>>, remote |-> 0, writes |-> 0, progress |-> <<>>]

\* a SyncProgress passed to onProgress, without the message
Report(phase, progress) == [phase |-> phase, progress |-> progress]

\* r after the calls onProgress(reports[1]), onProgress(reports[2]), ...
Reported(r, reports) == [r EXCEPT !.progress = @ \o reports]

\* SyncResult, without the duration
SyncResult(success, n, errors, fromCache) ==
    [success |-> success, recordsProcessed |-> n, errors |-> errors, fromCache |-> fromCache]

SyncGuardOff(flag) == FALSE

\* syncFromDiscogs: if (this.isSync) throw new Error('Sync already in progress')
SyncGuard(flag) == flag

HasUsableCacheAnyList(cached) == IsSome(cached)

\* cachedRecords && cachedRecords.length > 0
HasUsableCache(cached) == IsSome(cached) /\ Len(Val(cached)) > 0

\* the synchronous head of syncFromDiscogs, run by caller c whose record is r:
\* the guard, the two flags, the first progress report, then the await of
\* testConnection
EnterSync(c, r) ==
    IF SyncGuard(isSync)
    THEN /\ call' = [call EXCEPT ![c] = [r EXCEPT !.pc = "rejected"]]
         /\ UNCHANGED <<isSync, cancelSync>>
    ELSE /\ isSync' = TRUE
         /\ cancelSync' = FALSE
         /\ call' = [call EXCEPT ![c] =
                Reported([r EXCEPT !.pc = "testConnection"], <<Report("connecting", 0)>>)]

\* getVinylRecords is called: with forceRefresh it runs into syncFromDiscogs at
\* once, otherwise it awaits cacheService.isCacheValid()
Invoke(c) ==
    /\ call[c].pc = "idle"
    /\ \E forceRefresh \in BOOLEAN :
           IF forceRefresh
           THEN EnterSync(c, [IdleCall EXCEPT !.forceRefresh = TRUE])
           ELSE /\ call' = [call EXCEPT ![c] = [IdleCall EXCEPT !.pc = "isCacheValid"]]
                /\ UNCHANGED <<isSync, cancelSync>>
    /\ UNCHANGED <<storeVars, enrichVars, queueVars, otherVars>>

\* isCacheValid() resolves
IsCacheValidDone(c) ==
    /\ call[c].pc = "isCacheValid"
    /\ IF IsCacheValid(GetMetadata(storeMeta), now)
       THEN /\ call' = [call EXCEPT ![c] = [@ EXCEPT !.pc = "getCached"]]
            /\ UNCHANGED <<isSync, cancelSync>>
       ELSE EnterSync(c, call[c])
    /\ UNCHANGED <<storeVars, enrichVars, queueVars, otherVars>>

\* getCachedCollection() resolves: a cache hit, or on to syncFromDiscogs
GetCachedDone(c) ==
    /\ call[c].pc = "getCached"
    /\ LET cached == GetCachedCollection(storeRecords) IN
         IF HasUsableCache(cached)
         THEN /\ call' = [call EXCEPT ![c] =
                    [@ EXCEPT !.pc = "returned", !.records = Val(cached),
                              !.progress = <<Report("complete", 100)>>,
                              !.result = Some(SyncResult(TRUE, Len(Val(cached)), <<>>, TRUE))]]
              /\ UNCHANGED <<isSync, cancelSync>>
         ELSE EnterSync(c, call[c])
    /\ UNCHANGED <<storeVars, enrichVars, queueVars, otherVars>>

CatchNoMessage(r, msg) ==
    [r EXCEPT !.pc = "fallback", !.releases = <<>>, !.lastSync = 0,
              !.progress = Append(@, Report("error", 0))]

\* the catch block up to its await of getCachedCollection; validRecords is out
\* of scope in the catch block, and the field valid keeps the list only so
\* that it can be compared with what the call returns
Catch(r, msg) ==
    [r EXCEPT !.pc = "fallback", !.errors = Append(@, msg), !.releases = <<>>,
              !.lastSync = 0,
              !.progress = Append(@, Report("error", 0))]

\* testConnection() resolves (one profile request)
TestConnectionDone(c) ==
    /\ call[c].pc = "testConnection"
    /\ \E ok \in BOOLEAN :
         LET r == [call[c] EXCEPT !.remote = @ + 1] IN
           call' = [call EXCEPT ![c] =
                      IF ok THEN Reported([r EXCEPT !.pc = "getAll"],
                                          <<Report("connecting", 10), Report("fetching", 20)>>)
                      ELSE Catch(r, "Failed to connect to Discogs API")]
    /\ UNCHANGED <<isSync, cancelSync, storeVars, enrichVars, queueVars, otherVars>>

TransformAndCacheUnreported(r, items) ==
    LET transformed == TransformAll(items)
        validRecords == FilterValidRecords(transformed)
    IN [r EXCEPT !.pc = "cacheCollection", !.releases = <<>>, !.valid = validRecords,
                 !.lastSync = now, !.writes = @ + 1]

TransformAndCachePolled(r, items) ==
    IF cancelSync
    THEN Catch(r, "Sync cancelled by user")
    ELSE LET transformed == TransformAll(items)
             validRecords == FilterValidRecords(transformed)
         IN [r EXCEPT !.pc = "cacheCollection",
                      !.progress = @ \o <<Report("transforming", 70), Report("transforming", 80),
                                          Report("caching", 90)>>,
                      !.releases = <<>>,
                      !.valid = validRecords,
                      !.errors = IF Len(validRecords) # Len(transformed)
                                 THEN Append(@, "records were invalid and filtered out")
                                 ELSE @,
                      !.lastSync = now,
                      !.writes = @ + 1]

\* the transformation of the enriched releases, the filter, and the call of
\* cacheCollection, which reads Date.now()
TransformAndCache(r, items) ==
    LET transformed == TransformAll(items)
        validRecords == FilterValidRecords(transformed)
    IN [r EXCEPT !.pc = "cacheCollection",
                 !.progress = @ \o <<Report("transforming", 70), Report("transforming", 80),
                                     Report("caching", 90)>>,
                 !.releases = <<>>,
                 !.valid = validRecords,
                 !.errors = IF Len(validRecords) # Len(transformed)
                            THEN Append(@, "records were invalid and filtered out")
                            ELSE @,
                 !.lastSync = now,
                 !.writes = @ + 1]

NeverEmpty(releases) == FALSE

\* syncFromDiscogs: if (discogsReleases.length === 0) throw new Error('No releases found ...')
IsEmptyCollection(releases) == Len(releases) = 0

\* getAllUserCollection() resolves or throws. The option skipMasterData is
\* read here for the first time, so the caller's choice is drawn here.
GetAllDone(c, collections) ==
    /\ call[c].pc = "getAll"
    /\ LET r == [call[c] EXCEPT !.remote = @ + 1] IN
         \/ call' = [call EXCEPT ![c] = Catch(r, "fetch failed")]
         \/ \E releases \in collections, skipMasterData \in BOOLEAN :
              call' = [call EXCEPT ![c] =
                 IF cancelSync THEN Catch(r, "Sync cancelled by user")
                 ELSE IF IsEmptyCollection(releases)
                      THEN Catch(r, "No releases found in your Discogs collection")
                 ELSE IF skipMasterData
                      THEN TransformAndCache(
                              Reported(r, <<Report("fetching", 40), Report("fetching", 60)>>), releases)
                 ELSE Reported([r EXCEPT !.pc = "enrich", !.releases = releases],
                               <<Report("fetching", 40), Report("fetching", 50)>>)]
    /\ UNCHANGED <<isSync, cancelSync, storeVars, enrichVars, queueVars, otherVars>>

\* enrichWithMasterData() resolves; it returns one entry per item and never throws
EnrichDone(c) ==
    /\ call[c].pc = "enrich"
    /\ call' = [call EXCEPT ![c] =
          TransformAndCache(Reported([call[c] EXCEPT !.remote = @ + 1], <<Report("fetching", 60)>>),
                            call[c].releases)]
    /\ UNCHANGED <<isSync, cancelSync, storeVars, enrichVars, queueVars, otherVars>>

CacheWriteOkEither(wr, wm) == wr \/ wm

\* cacheCollection: await Promise.all([setItem(COLLECTION_KEY), setItem(METADATA_KEY)]);
\* a failure of either write is rethrown
CacheWriteOk(wr, wm) == wr /\ wm

\* cacheCollection() resolves or throws; on success the sync returns and the
\* finally block clears both flags
CacheCollectionDone(c) ==
    /\ call[c].pc = "cacheCollection"
    /\ \E wr \in BOOLEAN, wm \in BOOLEAN :
         /\ storeRecords' = CacheCollectionRecords(storeRecords, call[c].valid, wr)
         /\ storeMeta' = CacheCollectionMeta(storeMeta, call[c].valid, call[c].lastSync, wm)
         /\ IF CacheWriteOk(wr, wm)
            THEN /\ call' = [call EXCEPT ![c] =
                       [@ EXCEPT !.pc = "returned", !.records = call[c].valid, !.valid = <<>>,
                                 !.progress = Append(@, Report("complete", 100)),
                                 !.errors = <<>>, !.lastSync = 0,
                                 !.result = Some(SyncResult(TRUE, Len(call[c].valid), call[c].errors, FALSE))]]
                 /\ isSync' = FALSE
                 /\ cancelSync' = FALSE
            ELSE /\ call' = [call EXCEPT ![c] = Catch(@, "Failed to cache collection data")]
                 /\ UNCHANGED <<isSync, cancelSync>>
    /\ UNCHANGED <<now, lastOp, enrichVars, queueVars, otherVars>>

\* the catch block's getCachedCollection() resolves: the degraded result, then
\* the finally block
FallbackDone(c) ==
    /\ call[c].pc = "fallback"
    /\ LET cached == GetCachedCollection(storeRecords) IN
         call' = [call EXCEPT ![c] =
            IF HasUsableCache(cached)
            THEN [@ EXCEPT !.pc = "returned", !.records = Val(cached), !.errors = <<>>, !.valid = <<>>,
                           !.result = Some(SyncResult(FALSE, Len(Val(cached)), call[c].errors, TRUE))]
            ELSE [@ EXCEPT !.pc = "returned", !.records = <<>>, !.errors = <<>>, !.valid = <<>>,
                           !.result = Some(SyncResult(FALSE, 0, call[c].errors, FALSE))]]
    /\ isSync' = FALSE
    /\ cancelSync' = FALSE
    /\ UNCHANGED <<storeVars, enrichVars, queueVars, otherVars>>

CancelFlagAlways(inFlight, flag) == TRUE

\* cancelCurrentSync: if (this.isSync) this.cancelSync = true
CancelFlag(inFlight, flag) == IF inFlight THEN TRUE ELSE flag

\* SyncService.cancelCurrentSync
CancelCurrentSync ==
    /\ cancelSync' = CancelFlag(isSync, cancelSync)
    /\ UNCHANGED <<isSync, call, storeVars, enrichVars, queueVars, otherVars>>

\* the caller has taken its result (or its exception) and may call again
Forget(c) ==
    /\ call[c].pc \in {"returned", "rejected"}
    /\ call' = [call EXCEPT ![c] = IdleCall]
    /\ UNCHANGED <<isSync, cancelSync, storeVars, enrichVars, queueVars, otherVars>>

\* the clock advances
Tick ==
    /\ now + HoursPerTick <= MaxClock
    /\ now' = now + HoursPerTick
    /\ UNCHANGED <<syncVars, storeRecords, storeMeta, lastOp, enrichVars, queueVars, otherVars>>

\* values of the variables a specification does not use
EnrichParked ==
    /\ masterCache = {}
    /\ item = <<>>
    /\ batchStart = 0
    /\ enrichPc = "none"
    /\ enriched = <<>>
    /\ masterFetches = <<>>

QueueParked ==
    /\ rateLimit = 0
    /\ intervalCount = 0
    /\ httpInInterval = 0
    /\ req = <<>>

PageParked ==
    /\ fetchPc = "none"
    /\ totalPages = 0
    /\ page = <<>>
    /\ allReleases = <<>>

XformParked ==
    /\ input = <<>>
    /\ output = <<>>

PubParked ==
    /\ pubIsSyncing = FALSE
    /\ pubCaptured = FALSE
    /\ pubLoading = FALSE
    /\ pipeline = <<>>

VinylParked ==
    /\ hookPc = <<>>
    /\ isLoading = FALSE
    /\ syncProgress = None

PickerParked ==
    /\ suggestionHistory = <<>>
    /\ storageMode = "ok"
    /\ lastPick = <<>>

UiParked == PubParked /\ VinylParked /\ PickerParked

OtherParked == PageParked /\ XformParked /\ UiParked

SyncParked ==
    /\ isSync = FALSE
    /\ cancelSync = FALSE
    /\ call = <<>>

StoreParked ==
    /\ storeRecords = None
    /\ storeMeta = None
    /\ now = 0
    /\ lastOp = [op |-> "none", threw |-> FALSE, id |-> 0]

\* the singletons after construction: no sync, an empty store
InitCallers(callers) ==
    /\ isSync = FALSE
    /\ cancelSync = FALSE
    /\ call = [c \in callers |-> IdleCall]
    /\ storeRecords = None
    /\ storeMeta = None
    /\ now = 0
    /\ lastOp = [op |-> "none", threw |-> FALSE, id |-> 0]
    /\ EnrichParked
    /\ QueueParked
    /\ OtherParked

NextCallers(collections) ==
    \/ \E c \in DOMAIN call : Invoke(c)
    \/ \E c \in DOMAIN call : IsCacheValidDone(c)
    \/ \E c \in DOMAIN call : GetCachedDone(c)
    \/ \E c \in DOMAIN call : TestConnectionDone(c)
    \/ \E c \in DOMAIN call : GetAllDone(c, collections)
    \/ \E c \in DOMAIN call : EnrichDone(c)
    \/ \E c \in DOMAIN call : CacheCollectionDone(c)
    \/ \E c \in DOMAIN call : FallbackDone(c)
    \/ \E c \in DOMAIN call : Forget(c)
    \/ CancelCurrentSync
    \/ Tick

\* positions of a caller before, inside and after syncFromDiscogs
PreSyncPcs == {"idle", "isCacheValid", "getCached"}
InSyncPcs == {"testConnection", "getAll", "enrich", "cacheCollection", "fallback"}

\* one caller, every remote collection
Init == InitCallers(OneCaller)
Next == NextCallers(RemoteCollections)
Spec == Init /\ [][Next]_vars

\* two concurrent callers, the small remote collections
ConcInit == InitCallers(TwoCallers)
ConcNext == NextCallers(SmallCollections)
ConcSpec == ConcInit /\ [][ConcNext]_vars

\* ------------------------------------------------------------ CacheService operations
\* records.findIndex(r => r.id === id): the first index with that id, or 0
FindIndex(records, id) ==
    IF \E i \in 1 .. Len(records) : records[i].id = id
    THEN CHOOSE i \in 1 .. Len(records) :
            records[i].id = id /\ \A j \in 1 .. i - 1 : records[j].id # id
    ELSE 0

\* addCachedRecord: replace the entry with the same id, or push
Upsert(records, newRecord) ==
    LET existingIndex == FindIndex(records, newRecord.id) IN
      IF existingIndex # 0 THEN [records EXCEPT ![existingIndex] = newRecord]
      ELSE Append(records, newRecord)

WithoutFirst(records, recordId) == IF records = <<>> THEN records ELSE Tail(records)

\* records.filter(r => r.id !== recordId)
WithoutId(records, recordId) == SelectSeq(records, LAMBDA r : r.id # recordId)

\* the metadata update of addCachedRecord and removeCachedRecord:
\* if (metadata) { metadata.totalRecords = n; setItem(METADATA_KEY, metadata) }
WithTotal(meta, n, w) ==
    IF IsSome(meta) /\ w THEN Some([Val(meta) EXCEPT !.totalRecords = n]) ELSE meta

\* the lists syncFromDiscogs hands to cacheCollection
SyncedLists == {FilterValidRecords(TransformAll(releases)) : releases \in RemoteCollections}

\* CacheService.cacheCollection(records, ...): W holds the outcomes a setItem can have
CacheCollection(W) ==
    \E recs \in SyncedLists, wr \in W, wm \in W :
        /\ storeRecords' = CacheCollectionRecords(storeRecords, recs, wr)
        /\ storeMeta' = CacheCollectionMeta(storeMeta, recs, now, wm)
        /\ lastOp' = [op |-> "cacheCollection", threw |-> ~(wr /\ wm), id |-> 0]
        /\ UNCHANGED <<now, syncVars, enrichVars, queueVars, otherVars>>

\* CacheService.importCache(data): cacheCollection(data.records, ...)
ImportCache(W) ==
    \E data \in [records : RecordLists], wr \in W, wm \in W :
        /\ storeRecords' = CacheCollectionRecords(storeRecords, data.records, wr)
        /\ storeMeta' = CacheCollectionMeta(storeMeta, data.records, now, wm)
        /\ lastOp' = [op |-> "importCache", threw |-> ~(wr /\ wm), id |-> 0]
        /\ UNCHANGED <<now, syncVars, enrichVars, queueVars, otherVars>>

ExportCacheListOnly(recs, meta) ==
    IF ~IsSome(recs) THEN None ELSE Some([records |-> Val(recs), metadata |-> meta])

\* CacheService.exportCache: if (!records || !metadata) return null;
\* return { records, metadata }. An empty array is truthy.
ExportCache(recs, meta) ==
    IF ~IsSome(recs) \/ ~IsSome(meta) THEN None
    ELSE Some([records |-> Val(recs), metadata |-> meta])

\* importCache(await exportCache()): with a null snapshot the read of
\* data.records throws inside the try block and nothing is written
ImportExported(W) ==
    \E wr \in W, wm \in W :
        LET data == ExportCache(GetCachedCollection(storeRecords), GetMetadata(storeMeta)) IN
          /\ IF IsSome(data)
             THEN /\ storeRecords' = CacheCollectionRecords(storeRecords, Val(data).records, wr)
                  /\ storeMeta' = CacheCollectionMeta(storeMeta, Val(data).records, now, wm)
                  /\ lastOp' = [op |-> "importCache(exportCache())", threw |-> ~(wr /\ wm), id |-> 0]
             ELSE /\ lastOp' = [op |-> "importCache(exportCache())", threw |-> TRUE, id |-> 0]
                  /\ UNCHANGED <<storeRecords, storeMeta>>
          /\ UNCHANGED <<now, syncVars, enrichVars, queueVars, otherVars>>

\* CacheService.getCacheStatus, reduced to hasCache and isValid:
\* hasCache = metadata !== null; isValid = hasCache && (await this.isCacheValid())
GetCacheStatus(meta, t) ==
    [hasCache |-> IsSome(GetMetadata(meta)),
     isValid |-> IsSome(GetMetadata(meta)) /\ IsCacheValid(meta, t)]

ClearCacheListOnly(W) ==
    \E rr \in W :
        /\ storeRecords' = IF rr THEN None ELSE storeRecords
        /\ storeMeta' = storeMeta
        /\ lastOp' = [op |-> "clearCache", threw |-> ~rr, id |-> 0]
        /\ UNCHANGED <<now, syncVars, enrichVars, queueVars, otherVars>>

\* CacheService.clearCache: two removeItem calls under Promise.all
ClearCache(W) ==
    \E rr \in W, rm \in W :
        /\ storeRecords' = IF rr THEN None ELSE storeRecords
        /\ storeMeta' = IF rm THEN None ELSE storeMeta
        /\ lastOp' = [op |-> "clearCache", threw |-> ~(rr /\ rm), id |-> 0]
        /\ UNCHANGED <<now, syncVars, enrichVars, queueVars, otherVars>>

\* CacheService.updateCachedRecord(recordId, updatedRecord)
UpdateCachedRecord(W) ==
    /\ \E recordId \in ItemIds, updatedRecord \in Record, w \in W :
           LET records == GetCachedCollection(storeRecords)
               index == IF IsSome(records) THEN FindIndex(Val(records), recordId) ELSE 0
           IN IF ~IsSome(records) \/ index = 0
              THEN /\ lastOp' = [op |-> "updateCachedRecord", threw |-> TRUE, id |-> recordId]
                   /\ UNCHANGED <<storeRecords, storeMeta>>
              ELSE /\ storeRecords' =
                        IF w THEN Some([Val(records) EXCEPT ![index] = updatedRecord]) ELSE storeRecords
                   /\ lastOp' = [op |-> "updateCachedRecord", threw |-> ~w, id |-> recordId]
                   /\ UNCHANGED storeMeta
    /\ UNCHANGED <<now, syncVars, enrichVars, queueVars, otherVars>>

\* CacheService.addCachedRecord(newRecord): the list is written first, then the
\* metadata when there is one. The list holds at most MaxItems records.
AddCachedRecord(W) ==
    /\ \E newRecord \in Record, w1 \in W, w2 \in W :
           LET cached == GetCachedCollection(storeRecords)
               records == Upsert(IF IsSome(cached) THEN Val(cached) ELSE <<>>, newRecord)
           IN /\ Len(records) <= MaxItems
              /\ IF ~w1
                  THEN /\ lastOp' = [op |-> "addCachedRecord", threw |-> TRUE, id |-> newRecord.id]
                       /\ UNCHANGED <<storeRecords, storeMeta>>
                  ELSE /\ storeRecords' = Some(records)
                       /\ storeMeta' = WithTotal(GetMetadata(storeMeta), Len(records), w2)
                       /\ lastOp' = [op |-> "addCachedRecord", threw |-> IsSome(storeMeta) /\ ~w2, id |-> newRecord.id]
    /\ UNCHANGED <<now, syncVars, enrichVars, queueVars, otherVars>>

\* CacheService.removeCachedRecord(recordId)
RemoveCachedRecord(W) ==
    /\ \E recordId \in ItemIds, w1 \in W, w2 \in W :
           LET records == GetCachedCollection(storeRecords)
               filteredRecords == IF IsSome(records) THEN WithoutId(Val(records), recordId) ELSE <<>>
           IN IF ~IsSome(records) \/ Len(filteredRecords) = Len(Val(records)) \/ ~w1
              THEN /\ lastOp' = [op |-> "removeCachedRecord", threw |-> TRUE, id |-> recordId]
                   /\ UNCHANGED <<storeRecords, storeMeta>>
              ELSE /\ storeRecords' = Some(filteredRecords)
                   /\ storeMeta' = WithTotal(GetMetadata(storeMeta), Len(filteredRecords), w2)
                   /\ lastOp' = [op |-> "removeCachedRecord", threw |-> IsSome(storeMeta) /\ ~w2, id |-> recordId]
    /\ UNCHANGED <<now, syncVars, enrichVars, queueVars, otherVars>>

\* the store after construction: both keys absent
CacheInit ==
    /\ storeRecords = None
    /\ storeMeta = None
    /\ now = 0
    /\ lastOp = [op |-> "none", threw |-> FALSE, id |-> 0]
    /\ SyncParked
    /\ EnrichParked
    /\ QueueParked
    /\ OtherParked

\* every operation, every write landing or failing
CacheNext ==
    \/ CacheCollection(BOOLEAN)
    \/ ImportCache(BOOLEAN)
    \/ ImportExported(BOOLEAN)
    \/ ClearCache(BOOLEAN)
    \/ UpdateCachedRecord(BOOLEAN)
    \/ AddCachedRecord(BOOLEAN)
    \/ RemoveCachedRecord(BOOLEAN)
    \/ Tick

CacheSpec == CacheInit /\ [][CacheNext]_vars

\* the four record operations of the sync service, every write landing
MutateNext ==
    \/ CacheCollection({TRUE})
    \/ UpdateCachedRecord({TRUE})
    \/ AddCachedRecord({TRUE})
    \/ RemoveCachedRecord({TRUE})
    \/ Tick

MutateSpec == CacheInit /\ [][MutateNext]_vars

\* the remote collection of the specification with clearCache: one valid item
ClearCollections == {<<[id |-> 1, label |-> Some("Blue Note")]>>}

\* two callers of getVinylRecords and the clearCache of the hooks, within one
\* hour of the clock
ClearNext ==
    \/ \E c \in DOMAIN call : Invoke(c)
    \/ \E c \in DOMAIN call : IsCacheValidDone(c)
    \/ \E c \in DOMAIN call : GetCachedDone(c)
    \/ \E c \in DOMAIN call : TestConnectionDone(c)
    \/ \E c \in DOMAIN call : GetAllDone(c, ClearCollections)
    \/ \E c \in DOMAIN call : EnrichDone(c)
    \/ \E c \in DOMAIN call : CacheCollectionDone(c)
    \/ \E c \in DOMAIN call : FallbackDone(c)
    \/ \E c \in DOMAIN call : Forget(c)
    \/ ClearCache(BOOLEAN)

ClearSpec == ConcInit /\ [][ClearNext]_vars

\* ------------------------------------------------------------ enrichWithMasterData
\* const batchSize = 10
batchSize == 10

MasterIds == 1 .. NumMasters

\* a release before enrichment: its master_id (0: none), not yet started
PendingRelease(masterId) ==
    [masterId |-> masterId, pc |-> "pending", detailed |-> FALSE, master |-> 0]

BatchOfRest(i, n) == {k \in 1 .. n : i < k}

BatchOfShort(i, n) == {k \in 1 .. n : i < k /\ k < i + batchSize}

\* the indexes of releases.slice(i, i + batchSize)
BatchOf(i, n) == {k \in 1 .. n : i < k /\ k <= i + batchSize}

\* masterCache.has(masterId)
CacheLookup(cache, masterId) == masterId \in cache

\* the loop head: batch.map(async release => ...) runs each callback up to its
\* await of getRelease
StartBatch ==
    /\ enrichPc = "loop"
    /\ batchStart < Len(item)
    /\ \A k \in BatchOf(batchStart, Len(item)) : item[k].pc = "pending"
    /\ item' = [k \in 1 .. Len(item) |->
                  IF k \in BatchOf(batchStart, Len(item))
                  THEN [item[k] EXCEPT !.pc = "getRelease"] ELSE item[k]]
    /\ UNCHANGED <<masterCache, batchStart, enrichPc, enriched, masterFetches,
                   syncVars, storeVars, queueVars, otherVars>>

\* getRelease(releaseId) of item k resolves or throws; then the master lookup:
\* no master id, a hit in masterCache, or a getMasterRelease request
GetReleaseDone(k) ==
    /\ enrichPc = "loop"
    /\ item[k].pc = "getRelease"
    /\ \E ok \in BOOLEAN :
         LET r == [item[k] EXCEPT !.detailed = ok]
             masterId == item[k].masterId
         IN IF masterId = 0
            THEN /\ item' = [item EXCEPT ![k] = [r EXCEPT !.pc = "done"]]
                 /\ UNCHANGED masterFetches
            ELSE IF CacheLookup(masterCache, masterId)
            THEN /\ item' = [item EXCEPT ![k] = [r EXCEPT !.pc = "done", !.master = masterId]]
                 /\ UNCHANGED masterFetches
            ELSE /\ item' = [item EXCEPT ![k] = [r EXCEPT !.pc = "getMaster"]]
                 /\ masterFetches' = [masterFetches EXCEPT ![masterId] = @ + 1]
    /\ UNCHANGED <<masterCache, batchStart, enrichPc, enriched, syncVars, storeVars, queueVars, otherVars>>

\* getMasterRelease(masterId) of item k resolves (the master is cached) or throws
GetMasterDone(k) ==
    /\ enrichPc = "loop"
    /\ item[k].pc = "getMaster"
    /\ \E ok \in BOOLEAN :
         IF ok
         THEN /\ masterCache' = masterCache \cup {item[k].masterId}
              /\ item' = [item EXCEPT ![k] = [@ EXCEPT !.pc = "done", !.master = item[k].masterId]]
         ELSE /\ item' = [item EXCEPT ![k] = [@ EXCEPT !.pc = "done"]]
              /\ UNCHANGED masterCache
    /\ UNCHANGED <<batchStart, enrichPc, enriched, masterFetches, syncVars, storeVars, queueVars, otherVars>>

\* Promise.all(batchPromises) resolves: the results are pushed in batch order,
\* and the loop goes on after its delay or the function returns
BatchDone ==
    /\ enrichPc = "loop"
    /\ BatchOf(batchStart, Len(item)) # {}
    /\ \A k \in BatchOf(batchStart, Len(item)) : item[k].pc = "done"
    /\ enriched' = enriched \o
          [j \in 1 .. Cardinality(BatchOf(batchStart, Len(item))) |->
              [release |-> batchStart + j,
               detailed |-> item[batchStart + j].detailed,
               master |-> item[batchStart + j].master]]
    /\ batchStart' = batchStart + batchSize
    /\ enrichPc' = IF batchStart + batchSize < Len(item) THEN "loop" ELSE "returned"
    /\ UNCHANGED <<masterCache, item, masterFetches, syncVars, storeVars, queueVars, otherVars>>

\* enrichWithMasterData(releases) is called: an empty masterCache, i = 0
EnrichInit ==
    /\ \E n \in 1 .. MaxReleases :
         item \in [1 .. n -> {PendingRelease(m) : m \in 0 .. NumMasters}]
    /\ masterCache = {}
    /\ batchStart = 0
    /\ enrichPc = "loop"
    /\ enriched = <<>>
    /\ masterFetches = [m \in MasterIds |-> 0]
    /\ SyncParked
    /\ StoreParked
    /\ QueueParked
    /\ OtherParked

EnrichNext ==
    \/ StartBatch
    \/ \E k \in 1 .. Len(item) : GetReleaseDone(k)
    \/ \E k \in 1 .. Len(item) : GetMasterDone(k)
    \/ BatchDone

EnrichSpec == EnrichInit /\ [][EnrichNext]_vars

\* enrichWithMasterData(releases) is called with one release more than a batch
\* holds; the first and the last release may have a master, both the same one
TwoBatchInit ==
    /\ item \in {[k \in 1 .. batchSize + 1 |->
                    PendingRelease(IF k = 1 THEN m1 ELSE IF k = batchSize + 1 THEN m2 ELSE 0)] :
                 m1 \in {0, 1}, m2 \in {0, 1}}
    /\ masterCache = {}
    /\ batchStart = 0
    /\ enrichPc = "loop"
    /\ enriched = <<>>
    /\ masterFetches = [m \in MasterIds |-> 0]
    /\ SyncParked
    /\ StoreParked
    /\ QueueParked
    /\ OtherParked

TwoBatchSpec == TwoBatchInit /\ [][EnrichNext]_vars

\* ------------------------------------------------------------ makeRequest
\* new PQueue({ ..., concurrency: 8 })
concurrency == 8

\* pRetry(..., { retries: 3, ... })
retries == 3

Requests == 1 .. NumRequests

\* the HTTP status of an attempt; 0 is a network error or the 30 s timeout
Statuses == {200, 401, 403, 404, 422, 0}

\* a makeRequest call that has not been made
NewRequest == [pc |-> "new", attempts |-> 0, last |-> -1, delivered |-> 0]

\* PQueue: the tasks that have started and not settled
Running == {r \in Requests : req[r].pc \in {"attempt", "backoff"}}

\* HTTP requests on the wire
InFlight == {r \in Requests : req[r].pc = "attempt"}

ShouldRetryOneMore(status, attemptNumber) == attemptNumber < 1 + retries + 1

\* pRetry: the response interceptor turns every error status into a plain Error
\* and rethrows network errors, so pRetry retries each failure alike until the
\* retries are used up
ShouldRetry(status, attemptNumber) == attemptNumber < 1 + retries

\* makeRequest is called: queue.add(task)
MakeRequest(r) ==
    /\ req[r].pc = "new"
    /\ req' = [req EXCEPT ![r] = [@ EXCEPT !.pc = "queued"]]
    /\ UNCHANGED <<rateLimit, intervalCount, httpInInterval, syncVars, storeVars, enrichVars, otherVars>>

\* the larger of httpInInterval + 1 and the first value above the limit: the
\* count is kept up to rateLimit + 1
CountAttempt == IF httpInInterval > rateLimit THEN httpInInterval ELSE httpInInterval + 1

\* PQueue starts a queued task when the concurrency and the interval cap allow
\* it; the task begins with the first client.get
StartTask(r) ==
    /\ req[r].pc = "queued"
    /\ Cardinality(Running) < concurrency
    /\ intervalCount < rateLimit
    /\ intervalCount' = intervalCount + 1
    /\ httpInInterval' = CountAttempt
    /\ req' = [req EXCEPT ![r] = [@ EXCEPT !.pc = "attempt", !.attempts = 1]]
    /\ UNCHANGED <<rateLimit, syncVars, storeVars, enrichVars, otherVars>>

\* client.get settles: the response is returned to the caller, or pRetry
\* schedules the next attempt, or it gives up and the error is thrown
AttemptDone(r) ==
    /\ req[r].pc = "attempt"
    /\ \E status \in Statuses :
         req' = [req EXCEPT ![r] =
                   IF status = 200
                   THEN [@ EXCEPT !.pc = "resolved", !.last = status, !.delivered = @ + 1]
                   ELSE IF ShouldRetry(status, req[r].attempts)
                   THEN [@ EXCEPT !.pc = "backoff", !.last = status]
                   ELSE [@ EXCEPT !.pc = "rejected", !.last = status]]
    /\ UNCHANGED <<rateLimit, intervalCount, httpInInterval, syncVars, storeVars, enrichVars, otherVars>>

\* the backoff timer of pRetry fires: the next client.get, inside the same
\* queue task
RetryAttempt(r) ==
    /\ req[r].pc = "backoff"
    /\ req' = [req EXCEPT ![r] = [@ EXCEPT !.pc = "attempt", !.attempts = @ + 1, !.last = -1]]
    /\ httpInInterval' = CountAttempt
    /\ UNCHANGED <<rateLimit, intervalCount, syncVars, storeVars, enrichVars, otherVars>>

\* PQueue: the 60 s interval ends and the interval count starts again
IntervalEnd ==
    /\ intervalCount' = 0
    /\ httpInInterval' = 0
    /\ UNCHANGED <<rateLimit, req, syncVars, storeVars, enrichVars, otherVars>>

\* the DiscogsService after construction: an empty queue
QueueInit ==
    /\ rateLimit \in 1 .. MaxRateLimit
    /\ intervalCount = 0
    /\ httpInInterval = 0
    /\ req = [r \in Requests |-> NewRequest]
    /\ SyncParked
    /\ StoreParked
    /\ EnrichParked
    /\ OtherParked

QueueNext ==
    \/ \E r \in Requests : MakeRequest(r)
    \/ \E r \in Requests : StartTask(r)
    \/ \E r \in Requests : AttemptDone(r)
    \/ \E r \in Requests : RetryAttempt(r)
    \/ IntervalEnd

QueueSpec == QueueInit /\ [][QueueNext]_vars

\* ------------------------------------------------------------ getAllUserCollection
Pages == 1 .. MaxPages

\* the releases of page p of the remote collection, the first k of them
PageReleases(p, k) == [i \in 1 .. k |-> (p - 1) * PerPage + i]

\* a getUserCollection promise: not made, pending, fulfilled with releases, or
\* rejected by makeRequest; order tells the how-manieth it was to settle
NoPage == [st |-> "none", releases |-> <<>>, order |-> 0]

\* the number of promises that have settled
Settled(pg) == Cardinality({q \in DOMAIN pg : pg[q].st \in {"fulfilled", "rejected"}})

RECURSIVE ConcatBackwards(_, _)
ConcatBackwards(pg, n) == IF n = 0 THEN <<>> ELSE pg[n].releases \o ConcatBackwards(pg, n - 1)

RECURSIVE Concat(_, _)
\* the releases of pages 1 .. n, in page order
Concat(pg, n) == IF n = 0 THEN <<>> ELSE Concat(pg, n - 1) \o pg[n].releases

PromiseAllSettled(pg, n) ==
    IF \A q \in 2 .. n : pg[q].st \in {"fulfilled", "rejected"} THEN "fulfilled" ELSE "pending"

\* Promise.all over the promises of pages 2 .. n: rejected as soon as one is
\* rejected, fulfilled when all are fulfilled
PromiseAll(pg, n) ==
    IF \E q \in 2 .. n : pg[q].st = "rejected" THEN "rejected"
    ELSE IF \A q \in 2 .. n : pg[q].st = "fulfilled" THEN "fulfilled"
    ELSE "pending"

\* getAllUserCollection is called: the request for page 1
GetAllUserCollection ==
    /\ fetchPc = "idle"
    /\ fetchPc' = "firstPage"
    /\ page' = [page EXCEPT ![1] = [@ EXCEPT !.st = "pending"]]
    /\ UNCHANGED <<totalPages, allReleases, notPageVars>>

\* page 1 arrives with pagination.pages = n, and the requests for pages 2 .. n
\* are made at once; or the request for page 1 fails and the call throws
FirstPageDone ==
    /\ fetchPc = "firstPage"
    /\ \/ \E n \in Pages, k \in 1 .. PerPage :
            /\ totalPages' = n
            /\ allReleases' = PageReleases(1, k)
            /\ page' = [q \in Pages |->
                          IF q = 1 THEN [st |-> "fulfilled", releases |-> PageReleases(1, k), order |-> 1]
                          ELSE IF q <= n THEN [st |-> "pending", releases |-> <<>>, order |-> 0]
                          ELSE page[q]]
            /\ fetchPc' = IF n > 1 THEN "remaining" ELSE "returned"
       \/ /\ page' = [page EXCEPT ![1] = [@ EXCEPT !.st = "rejected", !.order = 1]]
          /\ fetchPc' = "rejected"
          /\ UNCHANGED <<totalPages, allReleases>>
    /\ UNCHANGED notPageVars

\* the request of one of the pages 2 .. n settles; when that settles the
\* Promise.all, the call continues: it throws, or appends the releases of the
\* remaining pages in page order and returns
PageDone(q) ==
    /\ q >= 2
    /\ page[q].st = "pending"
    /\ \E ok \in BOOLEAN, k \in 1 .. PerPage :
         /\ page' = [page EXCEPT ![q] =
                       IF ok THEN [st |-> "fulfilled", releases |-> PageReleases(q, k),
                                   order |-> Settled(page) + 1]
                       ELSE [st |-> "rejected", releases |-> <<>>, order |-> Settled(page) + 1]]
         /\ (~ok) => k = 1
    /\ IF fetchPc # "remaining"
       THEN UNCHANGED <<fetchPc, allReleases>>
       ELSE LET all == PromiseAll(page', totalPages)
            IN  /\ fetchPc' = CASE all = "rejected" -> "rejected"
                                [] all = "fulfilled" -> "returned"
                                [] OTHER -> "remaining"
                /\ allReleases' = IF all = "fulfilled"
                                  THEN Concat(page', totalPages)
                                  ELSE allReleases
    /\ UNCHANGED <<totalPages, notPageVars>>

\* the DiscogsService before a call of getAllUserCollection
PageInit ==
    /\ fetchPc = "idle"
    /\ totalPages = 0
    /\ page = [q \in Pages |-> NoPage]
    /\ allReleases = <<>>
    /\ SyncParked
    /\ StoreParked
    /\ EnrichParked
    /\ QueueParked
    /\ XformParked
    /\ UiParked

PageNext ==
    \/ GetAllUserCollection
    \/ FirstPageDone
    \/ \E q \in Pages : PageDone(q)

PageSpec == PageInit /\ [][PageNext]_vars

\* ------------------------------------------------------------ dataTransform: year and genres
\* genre strings: empty, blank, the placeholder, and a name
Genres == {"", " ", "Unknown", "Jazz"}

GenreLists == SeqsUpTo(Genres, MaxGenres)

\* String.prototype.trim on the genre strings
Trim(g) == IF g = " " THEN "" ELSE g

\* truthiness of a string
Truthy(str) == str # ""

\* year values of a release; 0 stands for a missing (or zero) year
ReleaseYears == {0, 1959}
TopLevelYears == {0, 1960}

\* year values of a master: negative, missing, positive
MasterYears == {-1, 0, 1958}

\* notes of a release
Notes == {"", "Recorded in March 1959 at Columbia", "Reissue of the 1959 album"}

\* cleanedNotes.match(/recorded\s+in\s+(\w+\s+\d{4})/i): the first group, on
\* the notes above
RecordedIn(notes) ==
    IF notes = "Recorded in March 1959 at Columbia" THEN Some("March 1959") ELSE None

\* a DiscogsRelease: basic_information (collection items have it) with its year
\* and genres, and the top-level year, genres and notes
DiscogsReleases ==
    [basic : {Some(b) : b \in [year : ReleaseYears, genres : GenreLists]},
     year : TopLevelYears, genres : {<<>>}, notes : Notes]
    \cup
    [basic : {None}, year : TopLevelYears, genres : GenreLists, notes : Notes]

\* a DiscogsMasterRelease: year and genres
DiscogsMasters == [year : MasterYears, genres : GenreLists]

\* discogsRelease.basic_information || discogsRelease
ReleaseData(release) ==
    IF IsSome(release.basic) THEN Val(release.basic)
    ELSE [year |-> release.year, genres |-> release.genres]

KeepGenreNonEmpty(g) == Truthy(g)

\* g && g.trim() && g !== 'Unknown'
KeepGenre(g) == Truthy(g) /\ Truthy(Trim(g)) /\ g # "Unknown"

\* validGenres.length > 0 ? validGenres : ['Unknown']
ValidGenres(genres) ==
    LET validGenres == SelectSeq(genres, KeepGenre)
    IN IF Len(validGenres) > 0 THEN validGenres ELSE <<"Unknown">>

\* transformDiscogsMasterRelease: genres and recordingDate (None: undefined)
TransformDiscogsMasterRelease(master) ==
    [genres |-> ValidGenres(master.genres),
     recordingDate |-> IF master.year # 0 /\ master.year > 0
                       THEN Some(ToString(master.year)) ELSE None]

\* transformDiscogsVinylRelease: releaseDate
TransformDiscogsVinylRelease(release) ==
    [releaseDate |-> IF ReleaseData(release).year # 0
                     THEN ToString(ReleaseData(release).year) ELSE "Unknown"]

\* extractRecordingDate
ExtractRecordingDate(release) ==
    IF Truthy(release.notes) /\ IsSome(RecordedIn(release.notes))
    THEN RecordedIn(release.notes)
    ELSE IF release.year # 0 THEN Some(ToString(release.year))
    ELSE None

\* masterRelease of transformDiscogsToVinylRecord: from the master, or the
\* fallback built from the release
MasterReleaseOf(release, master) ==
    IF IsSome(master)
    THEN TransformDiscogsMasterRelease(Val(master))
    ELSE [genres |-> ValidGenres(ReleaseData(release).genres),
          recordingDate |-> ExtractRecordingDate(release)]

\* masterRelease.recordingDate || vinylRelease.releaseDate || 'Unknown'
FinalYear(recordingDate, releaseDate) ==
    IF IsSome(recordingDate) /\ Truthy(Val(recordingDate)) THEN Val(recordingDate)
    ELSE IF Truthy(releaseDate) THEN releaseDate
    ELSE "Unknown"

\* transformDiscogsToVinylRecord: year, genres, recordingDate and releaseDate
\* of the record it returns
VinylRecordOf(release, master) ==
    LET vinylRelease == TransformDiscogsVinylRelease(release)
        masterRelease == MasterReleaseOf(release, master)
    IN [year |-> FinalYear(masterRelease.recordingDate, vinylRelease.releaseDate),
        genres |-> masterRelease.genres,
        recordingDate |-> masterRelease.recordingDate,
        releaseDate |-> vinylRelease.releaseDate]

\* the arguments of a call
TransformInit ==
    /\ input \in [release : DiscogsReleases, master : {None} \cup {Some(m) : m \in DiscogsMasters}]
    /\ output = None
    /\ SyncParked
    /\ StoreParked
    /\ EnrichParked
    /\ QueueParked
    /\ PageParked
    /\ UiParked

\* the call returns
Transform ==
    /\ output = None
    /\ output' = Some(VinylRecordOf(input.release, input.master))
    /\ UNCHANGED <<input, notXformVars>>

TransformNext == Transform

TransformSpec == TransformInit /\ [][TransformNext]_vars

\* ------------------------------------------------------------ dataTransform: cleanText
\* a text is a sequence of characters; the characters: two word characters, the
\* space, a special character, and the characters of the Discogs markup
Chars == {"a", "l", " ", "#", "[", "]", "="}

Texts == SeqsUpTo(Chars, MaxTextLen)

\* \w and \s
IsWordChar(ch) == ch \in {"a", "l"}
IsSpaceChar(ch) == ch = " "

\* .substring(0, 1000)
MaxCleanLength == 1000

RECURSIVE WordRunEnd(_, _)
\* the last index of the run of word characters that starts at i, or i - 1
WordRunEnd(text, i) ==
    IF i <= Len(text) /\ IsWordChar(text[i]) THEN WordRunEnd(text, i + 1) ELSE i - 1

\* the index of the last character of the tag name of a reference that opens
\* at i, or 0: the tag is the letter given, or \w+ when tag = "w+"
TagEnd(text, i, tag) ==
    IF text[i] # "[" THEN 0
    ELSE IF tag = "w+"
         THEN (IF WordRunEnd(text, i + 1) > i THEN WordRunEnd(text, i + 1) ELSE 0)
         ELSE (IF i + 1 <= Len(text) /\ text[i + 1] = tag THEN i + 1 ELSE 0)

RECURSIVE FirstClose(_, _)
\* the index of the first "]" at or after i, or 0
FirstClose(text, i) ==
    IF i > Len(text) THEN 0
    ELSE IF text[i] = "]" THEN i
    ELSE FirstClose(text, i + 1)

\* the index of the "]" that ends a match of \[tag=([^\]]+)\] at i, or 0
MatchEnd(text, i, tag) ==
    LET t == TagEnd(text, i, tag) IN
      IF t = 0 \/ t + 1 > Len(text) \/ text[t + 1] # "=" THEN 0
      ELSE LET e == FirstClose(text, t + 2) IN
             IF e >= t + 3 THEN e ELSE 0

RECURSIVE ReplaceTagFrom(_, _, _)
\* text.replace(/\[tag=([^\]]+)\]/g, '$1'), from index i on
ReplaceTagFrom(text, i, tag) ==
    IF i > Len(text) THEN <<>>
    ELSE LET e == MatchEnd(text, i, tag) IN
           IF e # 0
           THEN SubSeq(text, TagEnd(text, i, tag) + 2, e - 1) \o ReplaceTagFrom(text, e + 1, tag)
           ELSE <<text[i]>> \o ReplaceTagFrom(text, i + 1, tag)

RECURSIVE RemoveEmptyBrackets(_, _)
\* text.replace(/\[\]/g, ''), from index i on
RemoveEmptyBrackets(text, i) ==
    IF i > Len(text) THEN <<>>
    ELSE IF i < Len(text) /\ text[i] = "[" /\ text[i + 1] = "]"
         THEN RemoveEmptyBrackets(text, i + 2)
         ELSE <<text[i]>> \o RemoveEmptyBrackets(text, i + 1)

\* cleanDiscogsMarkup: the references [l=..], [a=..], then any [x=..], then
\* the brackets left empty ([r=..] and [m=..] cannot occur over Chars)
CleanDiscogsMarkup(text) ==
    IF text = <<>> THEN <<>>
    ELSE RemoveEmptyBrackets(
            ReplaceTagFrom(ReplaceTagFrom(ReplaceTagFrom(text, 1, "l"), 1, "a"), 1, "w+"), 1)

RECURSIVE TrimStart(_)
TrimStart(text) ==
    IF text # <<>> /\ IsSpaceChar(text[1]) THEN TrimStart(Tail(text)) ELSE text

RECURSIVE TrimEnd(_)
TrimEnd(text) ==
    IF text # <<>> /\ IsSpaceChar(text[Len(text)])
    THEN TrimEnd(SubSeq(text, 1, Len(text) - 1)) ELSE text

\* .trim()
TrimText(text) == TrimEnd(TrimStart(text))

RECURSIVE CollapseSpaces(_, _)
\* .replace(/\s+/g, ' '), from index i on
CollapseSpaces(text, i) ==
    IF i > Len(text) THEN <<>>
    ELSE IF IsSpaceChar(text[i]) /\ i > 1 /\ IsSpaceChar(text[i - 1])
         THEN CollapseSpaces(text, i + 1)
         ELSE <<text[i]>> \o CollapseSpaces(text, i + 1)

\* .replace(/[^\w\s\-.,!?()&"']/g, '')
RemoveSpecial(text) == SelectSeq(text, LAMBDA ch : IsWordChar(ch) \/ IsSpaceChar(ch))

\* cleanText
CleanText(text) ==
    IF text = <<>> THEN <<>>
    ELSE LET cleaned == RemoveSpecial(CollapseSpaces(TrimText(CleanDiscogsMarkup(text)), 1))
         IN SubSeq(cleaned, 1, IF Len(cleaned) < MaxCleanLength THEN Len(cleaned) ELSE MaxCleanLength)

\* a text to clean
CleanInit ==
    /\ input \in Texts
    /\ output = <<>>
    /\ SyncParked
    /\ StoreParked
    /\ EnrichParked
    /\ QueueParked
    /\ PageParked
    /\ UiParked

\* cleanText is applied to the text, then to its own result
CleanTextAgain ==
    /\ Len(output) < 2
    /\ output' = Append(output, CleanText(IF output = <<>> THEN input ELSE output[Len(output)]))
    /\ UNCHANGED <<input, notXformVars>>

CleanNext == CleanTextAgain

CleanSpec == CleanInit /\ [][CleanNext]_vars

\* ------------------------------------------------------------ dataTransform: tracks
\* track titles: missing, blank, plain, and padded with spaces
TrackTitles == {"", " ", "So What", " Blue "}

\* String.prototype.trim on the track titles
TrimTitle(title) ==
    CASE title = " " -> ""
      [] title = " Blue " -> "Blue"
      [] OTHER -> title

\* track.duration: missing or given
TrackDurations == {"", "5:37"}

\* discogsRelease.tracklist
Tracklists == SeqsUpTo([title : TrackTitles, duration : TrackDurations], MaxTracks)

\* getRandomDuration returns a whole number of seconds from 150 to 510; the two
\* ends of the range
RandomSeconds == {150, 510}

\* seconds.toString().padStart(2, '0')
PadStart2(n) == IF n < 10 THEN "0" \o ToString(n) ELSE ToString(n)

\* formatDuration
FormatDuration(seconds) == ToString(seconds \div 60) \o ":" \o PadStart2(seconds % 60)

genericTrackNames ==
    <<"Opening", "Melody", "Interlude", "Rhythm", "Finale", "Theme", "Variation", "Coda">>

\* the values 4 + Math.floor(Math.random() * 3) can take
TrackCounts == 4 .. 6

KeepTrackUntrimmed(track) == Truthy(track.title)

\* track.title && track.title.trim()
KeepTrack(track) == Truthy(track.title) /\ Truthy(TrimTitle(track.title))

RECURSIVE TracksFrom(_, _, _)
\* the forEach over the tracklist, from index i on; random[i] is the value
\* getRandomDuration returns for entry i
TracksFrom(tracklist, i, random) ==
    IF i > Len(tracklist) THEN <<>>
    ELSE (IF KeepTrack(tracklist[i])
          THEN <<[number |-> i,
                  title |-> TrimTitle(tracklist[i].title),
                  duration |-> IF Truthy(tracklist[i].duration) THEN tracklist[i].duration
                               ELSE FormatDuration(random[i])]>>
          ELSE <<>>)
         \o TracksFrom(tracklist, i + 1, random)

\* the placeholder tracks
PlaceholderTracks(trackCount, random) ==
    [i \in 1 .. trackCount |->
        [number |-> i, title |-> genericTrackNames[i], duration |-> FormatDuration(random[i])]]

\* tracks of transformDiscogsVinylRelease
TracksOf(tracklist, trackCount, random) ==
    LET tracks == TracksFrom(tracklist, 1, random)
    IN IF Len(tracks) = 0 THEN PlaceholderTracks(trackCount, random) ELSE tracks

\* the tracklist of the release
TracksInit ==
    /\ input \in Tracklists
    /\ output = None
    /\ SyncParked
    /\ StoreParked
    /\ EnrichParked
    /\ QueueParked
    /\ PageParked
    /\ UiParked

\* the tracks are built, with the values Math.random() gives
BuildTracks ==
    /\ output = None
    /\ \E trackCount \in TrackCounts, random \in [1 .. 6 -> RandomSeconds] :
         output' = Some(TracksOf(input, trackCount, random))
    /\ UNCHANGED <<input, notXformVars>>

TracksNext == BuildTracks

TracksSpec == TracksInit /\ [][TracksNext]_vars

\* ------------------------------------------------------------ dataTransform: id
\* a catalog item as far as its id goes: releaseData.id (0: missing) and its
\* title, which tells two items without id apart
CatalogItems ==
    [id : ItemIds, title : {"A"}] \cup [id : {0}, title : {"A", "B"}]

\* Date.now() at the transformation, in milliseconds
TransformTimes == {1000, 2000}

\* the index of the item in the list of its sync run
TransformIndexes == 0 .. 1

\* one call of the transformation: the item, Date.now() and the index
IdCalls == [it : CatalogItems, now : TransformTimes, index : TransformIndexes]

\* id of transformDiscogsVinylRelease, which transformDiscogsToVinylRecord
\* hands on as the id of the record
VinylReleaseId(it, t, index) ==
    IF it.id # 0 THEN ToString(it.id)
    ELSE "generated-" \o ToString(t) \o "-" \o ToString(index)

\* two transformations, in the same or in different sync runs
IdInit ==
    /\ input \in [first : IdCalls, second : IdCalls]
    /\ output = None
    /\ SyncParked
    /\ StoreParked
    /\ EnrichParked
    /\ QueueParked
    /\ PageParked
    /\ UiParked

\* both transformations return
TransformBoth ==
    /\ output = None
    /\ output' = Some(<<VinylReleaseId(input.first.it, input.first.now, input.first.index),
                        VinylReleaseId(input.second.it, input.second.now, input.second.index)>>)
    /\ UNCHANGED <<input, notXformVars>>

IdNext == TransformBoth

IdSpec == IdInit /\ [][IdNext]_vars

\* ------------------------------------------------------------ usePublicCollection
\* the runs of the hook's syncFromDiscogs that can be started
Runs == 1 .. MaxRuns

\* the awaits of one run, in order, and its end
RunPcs == {"testConnection", "getAll", "syncToDb", "loadCollection", "loadStats"}

\* the runs whose try block has not been left
RunningPipelines == {k \in DOMAIN pipeline : pipeline[k] \in RunPcs}

\* the hook after its first render; the browser is online
PubInit ==
    /\ pubIsSyncing = FALSE
    /\ pubCaptured = FALSE
    /\ pubLoading = FALSE
    /\ pipeline = [k \in Runs |-> "none"]
    /\ SyncParked
    /\ StoreParked
    /\ EnrichParked
    /\ QueueParked
    /\ PageParked
    /\ XformParked
    /\ VinylParked
    /\ PickerParked

notPubVars == <<coreVars, pageVars, xformVars, vinylVars, pickerVars>>

\* syncFromDiscogs of the hook is called: if (isSyncing) return, with the
\* isSyncing of the render that created the callback; otherwise
\* setIsSyncing(true), isLoading: true, and the await of testConnection
PubSyncFromDiscogs ==
    /\ ~pubCaptured
    /\ \E k \in Runs :
          /\ pipeline[k] = "none"
          /\ \A j \in Runs : j < k => pipeline[j] # "none"
          /\ pipeline' = [pipeline EXCEPT ![k] = "testConnection"]
    /\ pubIsSyncing' = TRUE
    /\ pubLoading' = TRUE
    /\ UNCHANGED <<pubCaptured, notPubVars>>

\* the finally block: isLoading: false, setIsSyncing(false)
PubFinally(k) ==
    /\ pipeline' = [pipeline EXCEPT ![k] = "done"]
    /\ pubLoading' = FALSE
    /\ pubIsSyncing' = FALSE

\* an await of run k settles: the next await, or the catch and finally blocks.
\* loadCollection sets isLoading on entry and clears it when it ends, and it
\* and loadStats catch their own errors.
PubAwaitDone(k) ==
    /\ pipeline[k] \in RunPcs
    /\ \E ok \in BOOLEAN :
          CASE pipeline[k] = "testConnection" ->
                  IF ok THEN /\ pipeline' = [pipeline EXCEPT ![k] = "getAll"]
                             /\ UNCHANGED <<pubLoading, pubIsSyncing>>
                  ELSE PubFinally(k)
            [] pipeline[k] = "getAll" ->
                  IF ok THEN /\ pipeline' = [pipeline EXCEPT ![k] = "syncToDb"]
                             /\ UNCHANGED <<pubLoading, pubIsSyncing>>
                  ELSE PubFinally(k)
            [] pipeline[k] = "syncToDb" ->
                  IF ok THEN /\ pipeline' = [pipeline EXCEPT ![k] = "loadCollection"]
                             /\ pubLoading' = TRUE
                             /\ UNCHANGED pubIsSyncing
                  ELSE PubFinally(k)
            [] pipeline[k] = "loadCollection" ->
                  /\ pipeline' = [pipeline EXCEPT ![k] = "loadStats"]
                  /\ pubLoading' = FALSE
                  /\ UNCHANGED pubIsSyncing
            [] pipeline[k] = "loadStats" -> PubFinally(k)
    /\ UNCHANGED <<pubCaptured, notPubVars>>

\* cancelSync of the hook: setIsSyncing(false), isLoading: false
PubCancelSync ==
    /\ pubIsSyncing' = FALSE
    /\ pubLoading' = FALSE
    /\ UNCHANGED <<pubCaptured, pipeline, notPubVars>>

\* React renders: useCallback creates syncFromDiscogs anew with the committed isSyncing
PubRender ==
    /\ pubCaptured' = pubIsSyncing
    /\ UNCHANGED <<pubIsSyncing, pubLoading, pipeline, notPubVars>>

PubNext ==
    \/ PubSyncFromDiscogs
    \/ \E k \in Runs : PubAwaitDone(k)
    \/ PubCancelSync
    \/ PubRender

PubSpec == PubInit /\ [][PubNext]_vars

\* ------------------------------------------------------------ useVinylCollection
notVinylVars == <<storeVars, enrichVars, queueVars, pageVars, xformVars, pubVars, pickerVars>>

\* the hook after its first render, over the sync service after construction
VinylInit ==
    /\ hookPc = [c \in TwoCallers |-> "idle"]
    /\ isLoading = FALSE
    /\ syncProgress = None
    /\ isSync = FALSE
    /\ cancelSync = FALSE
    /\ call = [c \in TwoCallers |-> IdleCall]
    /\ StoreParked
    /\ EnrichParked
    /\ QueueParked
    /\ PageParked
    /\ XformParked
    /\ PubParked
    /\ PickerParked

\* syncCollection is called: the updater leaves the state alone when isLoading
\* is set, and otherwise sets isLoading and clears syncProgress; the call of
\* syncService.getVinylRecords follows in either case
SyncCollection(c) ==
    /\ hookPc[c] \in {"idle", "settled"}
    /\ call[c].pc = "idle"
    /\ hookPc' = [hookPc EXCEPT ![c] = "called"]
    /\ isLoading' = TRUE
    /\ syncProgress' = IF isLoading THEN syncProgress ELSE None
    /\ UNCHANGED <<syncVars, notVinylVars>>

\* handleSyncProgress: the latest report of the service becomes state.syncProgress
HandleSyncProgress(c) ==
    /\ hookPc[c] = "called"
    /\ call[c].progress # <<>>
    /\ syncProgress' = Some(call[c].progress[Len(call[c].progress)].phase)
    /\ UNCHANGED <<hookPc, isLoading, syncVars, notVinylVars>>

\* the await of getVinylRecords settles: after a result and in the catch block
\* alike the hook sets isLoading: false and syncProgress: null
HookSettle(c) ==
    /\ hookPc[c] = "called"
    /\ call[c].pc \in {"returned", "rejected"}
    /\ hookPc' = [hookPc EXCEPT ![c] = "settled"]
    /\ isLoading' = FALSE
    /\ syncProgress' = None
    /\ UNCHANGED <<syncVars, notVinylVars>>

VinylNext ==
    \/ \E c \in DOMAIN hookPc : SyncCollection(c)
    \/ \E c \in DOMAIN hookPc : hookPc[c] = "called" /\ Invoke(c)
    \/ \E c \in DOMAIN hookPc : IsCacheValidDone(c)
    \/ \E c \in DOMAIN hookPc : GetCachedDone(c)
    \/ \E c \in DOMAIN hookPc : TestConnectionDone(c)
    \/ \E c \in DOMAIN hookPc : GetAllDone(c, ClearCollections)
    \/ \E c \in DOMAIN hookPc : EnrichDone(c)
    \/ \E c \in DOMAIN hookPc : CacheCollectionDone(c)
    \/ \E c \in DOMAIN hookPc : FallbackDone(c)
    \/ \E c \in DOMAIN hookPc : HandleSyncProgress(c)
    \/ \E c \in DOMAIN hookPc : HookSettle(c)
    \/ \E c \in DOMAIN hookPc : hookPc[c] = "settled" /\ Forget(c)

VinylSpec == VinylInit /\ [][VinylNext]_vars

\* ------------------------------------------------------------ randomPicker
\* const MAX_HISTORY = 10
MAX_HISTORY == 10

\* excludeRecentRecords: history.slice(0, Math.min(5, history.length)); deep-cuts: history.slice(5)
RecentCount == 5

\* record i of the collection: genres alternate, years advance by four
PickerRecord(i) ==
    [id |-> i, genre |-> IF i % 2 = 1 THEN "Jazz" ELSE "Rock", year |-> 1955 + 4 * i]

\* the collections the picker is called with: none, a few, one more than the history holds
CollectionSizes == {0, SmallCollection, MAX_HISTORY + 1}

Collection(n) == [i \in 1 .. n |-> PickerRecord(i)]

\* the history after the records k, ..., 2, 1 were suggested in turn, latest first
Run(k) == [i \in 1 .. k |-> k + 1 - i]

StoredHistories == {Run(0), Run(SmallCollection), Run(MAX_HISTORY)}

Modes == {"feeling-lucky", "mood-match", "deep-cuts", "time-travel", "genre-safari"}

\* currentGenre and currentDecade: "" and 0 stand for null
CurrentGenres == {"", "jazz", "Electronic"}
CurrentDecades == {0, 1960, 1990}

\* String.prototype.toLowerCase on the genre strings
ToLowerCase(g) ==
    CASE g = "Jazz" -> "jazz"
      [] g = "Rock" -> "rock"
      [] g = "Electronic" -> "electronic"
      [] OTHER -> g

\* getDecade, without the suffix 's'
GetDecade(year) == (year \div 10) * 10

Ids(history, from, to) == {history[i] : i \in {j \in from .. to : j <= Len(history)}}

\* getSuggestionHistory: the stored list, or [] when getItem throws
GetSuggestionHistory == IF storageMode = "blocked" THEN <<>> ELSE suggestionHistory

AddToHistoryUnfiltered(history, recordId) ==
    LET unshifted == <<recordId>> \o history
    IN SubSeq(unshifted, 1, IF Len(unshifted) < MAX_HISTORY THEN Len(unshifted) ELSE MAX_HISTORY)

\* addToHistory, up to the setItem: filter, unshift, slice(0, MAX_HISTORY)
AddToHistory(history, recordId) ==
    LET filtered == SelectSeq(history, LAMBDA id : id # recordId)
        unshifted == <<recordId>> \o filtered
    IN SubSeq(unshifted, 1, IF Len(unshifted) < MAX_HISTORY THEN Len(unshifted) ELSE MAX_HISTORY)

ExcludeNothing(records) == records

\* excludeRecentRecords
ExcludeRecentRecords(records) ==
    LET history == GetSuggestionHistory IN
      IF Len(history) = 0 THEN records
      ELSE LET recentIds == Ids(history, 1, RecentCount)
           IN SelectSeq(records, LAMBDA record : record.id \notin recentIds)

OrAll(available, records) == IF Len(available) = 0 THEN records ELSE available

\* the lists availableRecords can be after the switch; the decade of
\* time-travel and the genre of genre-safari are drawn with Math.random
Available(mode, records, currentGenre, currentDecade, excludeRecent) ==
    CASE mode = "feeling-lucky" ->
            {IF excludeRecent THEN OrAll(ExcludeRecentRecords(records), records) ELSE records}
      [] mode = "mood-match" ->
            IF currentGenre # "" \/ currentDecade # 0
            THEN LET matchesGenre(r) == currentGenre = "" \/ ToLowerCase(r.genre) = ToLowerCase(currentGenre)
                     matchesDecade(r) == currentDecade = 0 \/ GetDecade(r.year) = currentDecade
                     both == SelectSeq(records, LAMBDA r : matchesGenre(r) /\ matchesDecade(r))
                     byGenre == IF currentGenre # ""
                                THEN SelectSeq(records, LAMBDA r : ToLowerCase(r.genre) = ToLowerCase(currentGenre))
                                ELSE both
                     byDecade == IF Len(byGenre) = 0 /\ currentDecade # 0
                                 THEN SelectSeq(records, LAMBDA r : GetDecade(r.year) = currentDecade)
                                 ELSE byGenre
                 IN {IF Len(both) # 0 THEN both ELSE OrAll(byDecade, records)}
            ELSE {IF excludeRecent THEN OrAll(ExcludeRecentRecords(records), records) ELSE records}
      [] mode = "deep-cuts" ->
            LET notRecent == ExcludeRecentRecords(records)
                olderIds == Ids(GetSuggestionHistory, RecentCount + 1, Len(GetSuggestionHistory))
            IN {IF Len(notRecent) # 0 THEN notRecent
                ELSE OrAll(SelectSeq(records, LAMBDA record : record.id \notin olderIds), records)}
      [] mode = "time-travel" ->
            {SelectSeq(records, LAMBDA record : GetDecade(record.year) = randomDecade) :
                randomDecade \in {GetDecade(records[i].year) : i \in 1 .. Len(records)}}
      [] mode = "genre-safari" ->
            LET genres == {records[i].genre : i \in 1 .. Len(records)}
                others == IF currentGenre # ""
                          THEN {g \in genres : ToLowerCase(g) # ToLowerCase(currentGenre)}
                          ELSE genres
                targetGenres == IF others = {} THEN genres ELSE others
            IN {SelectSeq(records, LAMBDA record : record.genre = randomGenre) : randomGenre \in targetGenres}

\* the options a mode reads; the others are left out of the call
GenresRead(mode) == IF mode \in {"mood-match", "genre-safari"} THEN CurrentGenres ELSE {""}
DecadesRead(mode) == IF mode = "mood-match" THEN CurrentDecades ELSE {0}
ExcludeRecentRead(mode) == IF mode \in {"feeling-lucky", "mood-match"} THEN BOOLEAN ELSE {FALSE}

notPickerVars == <<coreVars, pageVars, xformVars, pubVars, vinylVars>>

\* a browser session: the stored history of earlier sessions, the state of
\* localStorage, and the collection the picker will be called with
PickerInit ==
    /\ suggestionHistory \in StoredHistories
    /\ storageMode \in {"ok", "readonly", "blocked"}
    /\ \E n \in CollectionSizes :
          lastPick = [calls |-> 0, n |-> n, mode |-> "none", record |-> 0, prev |-> 0]
    /\ SyncParked
    /\ StoreParked
    /\ EnrichParked
    /\ QueueParked
    /\ PageParked
    /\ XformParked
    /\ PubParked
    /\ VinylParked

\* the call returns: null, or the selected record after addToHistory, whose
\* setItem lands only when localStorage is usable
Returned(mode, recordId) ==
    /\ lastPick' = [lastPick EXCEPT !.calls = @ + 1, !.mode = mode, !.record = recordId,
                                    !.prev = IF lastPick.record # 0 THEN lastPick.record ELSE @]
    /\ suggestionHistory' =
          IF recordId # 0 /\ storageMode = "ok"
          THEN AddToHistory(GetSuggestionHistory, recordId)
          ELSE suggestionHistory

\* getRandomSuggestion(options)
GetRandomSuggestion ==
    /\ lastPick.calls < MaxCalls
    /\ \E mode \in Modes :
       \E currentGenre \in GenresRead(mode), currentDecade \in DecadesRead(mode),
          excludeRecent \in ExcludeRecentRead(mode) :
          LET records == Collection(lastPick.n) IN
            IF Len(records) = 0 THEN Returned(mode, 0)
            ELSE \E availableRecords \in Available(mode, records, currentGenre, currentDecade, excludeRecent) :
                   IF Len(availableRecords) = 0 THEN Returned(mode, 0)
                   ELSE \E k \in 1 .. Len(availableRecords) : Returned(mode, availableRecords[k].id)
    /\ UNCHANGED <<storageMode, notPickerVars>>

PickerNext == GetRandomSuggestion

PickerSpec == PickerInit /\ [][PickerNext]_vars

\* ------------------------------------------------------------ termination
\* The layers of one sync, each started on its own: syncFromDiscogs awaits
\* getAllUserCollection and enrichWithMasterData, which await makeRequest
\* calls. An await of a layer is one step of the layer above, and the
\* termination of the layer below is what makes that step fair.

\* the one makeRequest call that is followed to its end
FirstRequest == CHOOSE r \in Requests : \A q \in Requests : r <= q

\* enrichWithMasterData on releases that have no master or the first master
FewMastersInit ==
    /\ \E n \in 1 .. MaxReleases :
         item \in [1 .. n -> {PendingRelease(0), PendingRelease(1)}]
    /\ masterCache = {}
    /\ batchStart = 0
    /\ enrichPc = "loop"
    /\ enriched = <<>>
    /\ masterFetches = [m \in MasterIds |-> 0]
    /\ SyncParked
    /\ StoreParked
    /\ QueueParked
    /\ OtherParked

TermInit == Init \/ QueueInit \/ PageInit \/ FewMastersInit

\* the awaits of syncFromDiscogs settle
SyncProgress ==
    \E c \in DOMAIN call :
        \/ TestConnectionDone(c)
        \/ GetAllDone(c, SmallCollections)
        \/ EnrichDone(c)
        \/ CacheCollectionDone(c)
        \/ FallbackDone(c)

\* PQueue starts a task when a slot is free, an HTTP attempt responds or times
\* out (axios timeout), the backoff timer of pRetry fires
QueueProgress ==
    \E r \in DOMAIN req : StartTask(r) \/ AttemptDone(r) \/ RetryAttempt(r)

\* a page request settles
PageProgress == FirstPageDone \/ \E q \in DOMAIN page : PageDone(q)

\* a batch starts, a request of the batch settles, the batch ends
EnrichProgress ==
    \/ StartBatch
    \/ \E k \in DOMAIN item : GetReleaseDone(k) \/ GetMasterDone(k)
    \/ BatchDone

\* the clock stands still: no step of a sync waits for the cache to age
TermNext ==
    \/ \E c \in DOMAIN call : Invoke(c)
    \/ \E c \in DOMAIN call : IsCacheValidDone(c)
    \/ \E c \in DOMAIN call : GetCachedDone(c)
    \/ SyncProgress
    \/ \E c \in DOMAIN call : Forget(c)
    \/ CancelCurrentSync
    \/ (req # <<>> /\ MakeRequest(FirstRequest))
    \/ QueueProgress
    \/ IntervalEnd
    \/ GetAllUserCollection
    \/ PageProgress
    \/ EnrichProgress

\* every pending await, timer and queue slot is eventually served
TermFairness ==
    /\ WF_vars(SyncProgress)
    /\ WF_vars(QueueProgress)
    /\ WF_vars(IntervalEnd)
    /\ WF_vars(PageProgress)
    /\ WF_vars(EnrichProgress)

TermSpec == TermInit /\ [][TermNext]_vars /\ TermFairness

\* ------------------------------------------------------------ claims
\* the raw validity test of the cache: metadata exists and is younger than 24 hours
FreshMeta == IsSome(storeMeta) /\ now - Val(storeMeta).lastSync < CACHE_EXPIRY_HOURS
NonEmptyList == IsSome(storeRecords) /\ Len(Val(storeRecords)) > 0

\* C1 as stated: a caller whose request is decided while a sync is in flight is
\* rejected with an error and produces no SyncResult, and the sync that
\* succeeds has written the cache exactly once.
C1_Original ==
    [][\A c \in DOMAIN call :
         /\ (isSync /\ call[c].pc \in PreSyncPcs /\ call'[c].pc \notin PreSyncPcs)
               => call'[c].pc = "rejected" /\ call'[c].result = None
         /\ (call[c].pc \in InSyncPcs /\ call'[c].pc = "returned" /\ Val(call'[c].result).success)
               => call'[c].writes = 1]_vars

\* C1 amended: at most one caller is inside syncFromDiscogs; a caller that
\* reaches the guard of syncFromDiscogs while isSync is set is rejected, having
\* issued no remote request and no cache write, and leaves both flags alone; a
\* sync writes the cache at most once, and exactly once when it succeeds.
C1_SingleFlight ==
    [][/\ Cardinality({c \in DOMAIN call : call'[c].pc \in InSyncPcs}) <= 1
       /\ \A c \in DOMAIN call :
            /\ (isSync /\ call[c].pc \in PreSyncPcs /\ call'[c].pc \in {"testConnection", "rejected"})
                  => /\ call'[c].pc = "rejected"
                     /\ call'[c].result = None
                     /\ call'[c].remote = 0 /\ call'[c].writes = 0
                     /\ isSync' /\ cancelSync' = cancelSync
                     /\ storeRecords' = storeRecords /\ storeMeta' = storeMeta
            /\ call'[c].writes <= 1
            /\ (call'[c].pc = "returned" /\ Val(call'[c].result).success /\ ~Val(call'[c].result).fromCache)
                  => call'[c].writes = 1]_vars

\* a request was rejected while the other caller's sync was in flight
C1_Witness ==
    \E c, d \in DOMAIN call : call[c].pc = "rejected" /\ call[d].pc = "cacheCollection" /\ isSync

C3_Original ==
    [][\A c \in DOMAIN call :
         (call[c].pc = "fallback" /\ call'[c] # call[c])
            => /\ call'[c].pc = "returned"
               /\ ~Val(call'[c].result).success
               /\ Val(call'[c].result).fromCache = IsSome(storeRecords)]_vars

\* C3 amended: every failure inside syncFromDiscogs ends in a returned result,
\* never an exception: the cached records with success = false and fromCache =
\* true when a cached list exists and is non-empty, otherwise the empty list
\* with success = false and fromCache = false; the error list holds the
\* failure message last.
C3_FailureFallback ==
    [][\A c \in DOMAIN call :
         /\ (call[c].pc \in InSyncPcs) => call'[c].pc \in InSyncPcs \cup {"returned"}
         /\ (call[c].pc \in InSyncPcs /\ call[c].pc # "fallback" /\ call'[c].pc = "fallback")
               => /\ Len(call'[c].errors) = Len(call[c].errors) + 1
                  /\ call'[c].errors[Len(call'[c].errors)] \in
                        {"Failed to connect to Discogs API", "fetch failed", "Sync cancelled by user",
                         "No releases found in your Discogs collection", "Failed to cache collection data"}
         /\ (call[c].pc = "fallback" /\ call'[c] # call[c])
               => /\ call'[c].pc = "returned"
                  /\ Len(call[c].errors) >= 1
                  /\ IF NonEmptyList
                     THEN /\ call'[c].records = Val(storeRecords)
                          /\ call'[c].result =
                               Some(SyncResult(FALSE, Len(Val(storeRecords)), call[c].errors, TRUE))
                     ELSE /\ call'[c].records = <<>>
                          /\ call'[c].result = Some(SyncResult(FALSE, 0, call[c].errors, FALSE))]_vars

\* a failed sync returned the cached records as a degraded result
C3_Witness ==
    \E c \in DOMAIN call :
        /\ call[c].pc = "returned"
        /\ ~Val(call[c].result).success /\ Val(call[c].result).fromCache
        /\ Len(call[c].records) > 0

\* C4: isCacheValid answers true exactly when metadata exists and is younger
\* than 24 hours; a call without forceRefresh that finds the cache expired
\* goes on to syncFromDiscogs and its remote requests, and does not return
\* the cached list.
C4_Ttl ==
    [][\A c \in DOMAIN call :
         (call[c].pc = "isCacheValid" /\ call'[c] # call[c])
            => IF IsSome(storeMeta) /\ now - Val(storeMeta).lastSync < CACHE_EXPIRY_HOURS
               THEN call'[c].pc = "getCached"
               ELSE call'[c].pc = "testConnection" /\ isSync']_vars

\* a call without forceRefresh found a cache older than the expiry and is
\* fetching from the remote service
C4_Witness ==
    \E c \in DOMAIN call :
        /\ call[c].pc = "getAll" /\ ~call[c].forceRefresh
        /\ NonEmptyList
        /\ IsSome(storeMeta) /\ now - Val(storeMeta).lastSync >= CACHE_EXPIRY_HOURS

\* C5: the record list is present exactly when the metadata record is present.
C5_SnapshotMetadataUnit == IsSome(storeRecords) <=> IsSome(storeMeta)

\* C6: whenever a record list is stored, metadata.totalRecords is its length.
C6_RecordCount ==
    IsSome(storeRecords) => IsSome(storeMeta) /\ Val(storeMeta).totalRecords = Len(Val(storeRecords))

\* C7: within one run of enrichWithMasterData each master id is requested at
\* most once.
C7_MasterFetchedOnce == \A m \in DOMAIN masterFetches : masterFetches[m] <= 1

\* C8: at most 8 requests are on the wire at once and at most rateLimit HTTP
\* attempts, retries included, start within one 60 s interval.
C8_RateLimit ==
    /\ Cardinality(InFlight) <= concurrency
    /\ httpInInterval <= rateLimit

\* C9: an attempt that fails with 401, 404 or 422 is the only attempt of its
\* request, and the failure is surfaced at once.
C9_NoRetryOnFatal ==
    \A r \in DOMAIN req :
        req[r].last \in {401, 404, 422} => req[r].pc = "rejected" /\ req[r].attempts = 1

\* C10: a request is attempted at most 4 times; a successful attempt ends the
\* request and its response is delivered exactly once; a request is rejected
\* only when its fourth attempt has failed, and waits for a retry only before that.
C10_BoundedRetry ==
    \A r \in DOMAIN req :
        /\ req[r].attempts <= 4
        /\ req[r].delivered = (IF req[r].pc = "resolved" THEN 1 ELSE 0)
        /\ req[r].pc = "resolved" <=> req[r].last = 200
        /\ req[r].pc = "rejected" => req[r].attempts = 4 /\ req[r].last \notin {-1, 200}
        /\ req[r].pc = "backoff" => req[r].attempts < 4 /\ req[r].last \notin {-1, 200}
        /\ req[r].pc = "attempt" => req[r].attempts >= 1

\* a request succeeded on its third attempt, after two failures
C10_Witness ==
    \E r \in DOMAIN req : req[r].pc = "resolved" /\ req[r].attempts = 3 /\ req[r].delivered = 1

\* C11: getAllUserCollection returns only when every page 1 .. N was fetched,
\* and then the list is the releases of the pages 1 .. N in page order; when a
\* page request has failed, nothing is returned.
C11_AllOrError ==
    /\ fetchPc = "returned" =>
          /\ \A q \in 1 .. totalPages : page[q].st = "fulfilled"
          /\ allReleases = Concat(page, totalPages)
    /\ (\E q \in DOMAIN page : page[q].st = "rejected") => fetchPc \in {"rejected"}

\* a call that failed because page 2 of 3 failed although page 3 arrived
C11_Witness ==
    /\ fetchPc = "rejected"
    /\ totalPages = 3
    /\ page[2].st = "rejected"
    /\ page[3].st = "fulfilled"

\* the error messages of a call, while it runs and in its result
ErrorsOf(r) == IF IsSome(r.result) THEN Val(r.result).errors ELSE r.errors

SeqRange(sq) == {sq[i] : i \in 1 .. Len(sq)}

\* C12: a sync that observed a cancellation ends in the 'cancelled' outcome, not
\* in the 'error' outcome: its last progress report has the phase 'cancelled'.
C12_CancelledOutcome ==
    \A c \in DOMAIN call :
        "Sync cancelled by user" \in SeqRange(ErrorsOf(call[c])) =>
            call[c].progress[Len(call[c].progress)].phase = "cancelled"

PhaseRank(phase) ==
    CASE phase = "connecting" -> 1
      [] phase = "fetching" -> 2
      [] phase = "transforming" -> 3
      [] phase = "caching" -> 4
      [] phase = "complete" -> 5
      [] phase = "error" -> 6

\* the reports of a call that entered syncFromDiscogs
SyncReports(r) ==
    IF r.progress # <<>> /\ r.progress[1].phase = "connecting" THEN r.progress ELSE <<>>

C13_Order ==
    \A c \in DOMAIN call :
        LET log == SyncReports(call[c]) IN
          /\ \A i, j \in 1 .. Len(log) : i < j => PhaseRank(log[i].phase) <= PhaseRank(log[j].phase)
          /\ \A i \in 1 .. Len(log) : log[i].phase \in {"complete", "error"} => i = Len(log)

C13_CompleteAfterWrite ==
    \A c \in DOMAIN call :
        (/\ call[c].pc = "cacheCollection"
         /\ Report("complete", 100) \in SeqRange(call'[c].progress)) =>
            /\ storeRecords' = Some(call[c].valid)
            /\ storeMeta' = Some(Metadata(call[c].lastSync, Len(call[c].valid)))

\* C13: the phases reported within one sync follow connecting, fetching,
\* transforming, caching, complete without going back; 'error' and 'complete'
\* are the last report; 'complete' is reported only by a step that has written
\* the records and the metadata of this sync to the store.
C13_PhaseOrder == []C13_Order /\ [][C13_CompleteAfterWrite]_vars

\* a sync with master data that reported every phase up to 'complete'
C13_Witness ==
    \E c \in DOMAIN call :
        /\ call[c].pc = "returned"
        /\ Len(call[c].progress) = 10
        /\ call[c].progress[10] = Report("complete", 100)
        /\ storeRecords = Some(call[c].records)

\* C14: the percentages reported within one invocation never decrease.
C14_MonotoneProgress ==
    \A c \in DOMAIN call :
        \A i, j \in 1 .. Len(call[c].progress) :
            i < j => call[c].progress[i].progress <= call[c].progress[j].progress

\* C15: when the cache write of a sync fails, the call returns a failed result
\* whose records are the freshly validated records of this sync, marked as not
\* coming from the cache.
C15_FreshOnCacheFailure ==
    [][\A c \in DOMAIN call :
          (/\ call[c].pc = "fallback"
           /\ "Failed to cache collection data" \in SeqRange(call[c].errors)
           /\ call'[c].pc = "returned") =>
              /\ call'[c].records = call[c].valid
              /\ Val(call'[c].result).success = FALSE
              /\ Val(call'[c].result).fromCache = FALSE]_vars

\* the last phase a call has reported
LastPhase(r) == IF r.progress = <<>> THEN "none" ELSE r.progress[Len(r.progress)].phase

\* C16: the stored list and the stored metadata change only in a step of a sync
\* that is in its caching phase, and then only to the records and metadata of
\* that sync; every other step of a sync, its failure path included, leaves
\* both as they were.
C16_NoPartialVisibility ==
    [][(storeRecords' # storeRecords \/ storeMeta' # storeMeta) =>
          \E c \in DOMAIN call :
              /\ call[c].pc = "cacheCollection"
              /\ LastPhase(call[c]) = "caching"
              /\ call'[c].pc \in {"returned", "fallback"}
              /\ storeRecords' \in {storeRecords, Some(call[c].valid)}
              /\ storeMeta' \in {storeMeta, Some(Metadata(call[c].lastSync, Len(call[c].valid)))}]_vars

\* a sync that failed at the fetch while a snapshot and its metadata are stored
C16_Witness ==
    \E c \in DOMAIN call :
        /\ call[c].pc = "fallback"
        /\ "fetch failed" \in SeqRange(call[c].errors)
        /\ IsSome(storeRecords)
        /\ IsSome(storeMeta)

\* C17: enrichWithMasterData returns one entry per input release, in input
\* order; the entry holds the detailed release exactly when the detail fetch of
\* that release succeeded, and the master of that release or none; a failure
\* stops neither the batch nor the run.
C17_OneEntryPerItem ==
    /\ enrichPc \in {"none", "loop", "returned"}
    /\ Len(enriched) = (IF batchStart < Len(item) THEN batchStart ELSE Len(item))
    /\ \A j \in 1 .. Len(enriched) :
          /\ enriched[j].release = j
          /\ enriched[j].detailed = item[j].detailed
          /\ enriched[j].master \in {0, item[j].masterId}
    /\ enrichPc = "returned" => Len(enriched) = Len(item)

\* a run of two batches has returned although a detail fetch and a master
\* fetch of the first batch failed
C17_Witness ==
    /\ enrichPc = "returned"
    /\ Len(enriched) = batchSize + 1
    /\ enriched[1].master = 0
    /\ item[1].masterId = 1
    /\ ~enriched[2].detailed
    /\ enriched[batchSize + 1].master = 1

\* the years the release itself carries, as strings
OwnYears(release) ==
    {ToString(y) : y \in {ReleaseData(release).year, release.year} \ {0}}

\* C19: the year of the record is the master's year when a master with a
\* positive year is given, otherwise the release's own year when it has one,
\* otherwise "Unknown".
C19_YearResolution ==
    IsSome(output) =>
        LET release == input.release
            master == input.master
            year == Val(output).year
        IN IF IsSome(master) /\ Val(master).year > 0 THEN year = ToString(Val(master).year)
           ELSE IF OwnYears(release) # {} THEN year \in OwnYears(release)
           ELSE year = "Unknown"

\* C20: the genres of the record are the genres of its master release (the
\* given master, or the one built from the release when none is given) without
\* the empty, blank and "Unknown" entries, in their order, or <<"Unknown">> when
\* none is left; the list is never empty.
C20_GenreResolution ==
    IsSome(output) =>
        LET source == IF IsSome(input.master) THEN Val(input.master).genres
                      ELSE ReleaseData(input.release).genres
            kept == SelectSeq(source, LAMBDA g : g \notin {"", " ", "Unknown"})
            genres == Val(output).genres
        IN /\ genres = (IF kept = <<>> THEN <<"Unknown">> ELSE kept)
           /\ genres # <<>>

\* a master whose genres are a placeholder and a name, and one whose genres are
\* all placeholders, have been transformed
C20_Witness ==
    /\ IsSome(output)
    /\ IsSome(input.master)
    /\ Val(input.master).genres = <<"Unknown", "Jazz">>
    /\ Val(output).genres = <<"Jazz">>

C18_Valid ==
    \A c \in DOMAIN call :
        /\ \A i \in 1 .. Len(call[c].valid) : ValidateVinylRecord(call[c].valid[i])
        /\ (IsSome(call[c].result) /\ ~Val(call[c].result).fromCache) =>
              \A i \in 1 .. Len(call[c].records) : ValidateVinylRecord(call[c].records[i])

C18_DroppedAreCounted ==
    \A c \in DOMAIN call :
        (/\ call[c].pc = "enrich"
         /\ call'[c].pc = "cacheCollection"
         /\ Len(call'[c].valid) < Len(call[c].releases)) =>
            "records were invalid and filtered out" \in SeqRange(call'[c].errors)

\* C18: the records a sync passes to the cache and returns all satisfy
\* validateVinylRecord, and when fewer records come out of the transformation
\* and the filter than releases went in, the error list of the sync says so.
C18_ValidatedOutput == []C18_Valid /\ [][C18_DroppedAreCounted]_vars

\* C21: cleaning a cleaned text changes nothing: cleanText(cleanText(x)) = cleanText(x).
C21_Idempotent == Len(output) = 2 => output[2] = output[1]

\* the positions of the tracklist entries whose trimmed title is not empty
TitledPositions(tracklist) ==
    {i \in 1 .. Len(tracklist) : tracklist[i].title \notin {"", " "}}

\* C22: the tracks of a release are its tracklist entries with a non-blank
\* title, in tracklist order, each with its position, its trimmed title and its
\* duration when it has one; when no entry has such a title they are 4 to 6
\* placeholder tracks; there is always at least one track.
C22_TrackList ==
    IsSome(output) =>
        LET tracks == Val(output) IN
          /\ Len(tracks) >= 1
          /\ IF TitledPositions(input) # {}
             THEN /\ {tracks[j].number : j \in 1 .. Len(tracks)} = TitledPositions(input)
                  /\ \A j, k \in 1 .. Len(tracks) : j < k => tracks[j].number < tracks[k].number
                  /\ \A j \in 1 .. Len(tracks) :
                        LET entry == input[tracks[j].number] IN
                          /\ tracks[j].title = TrimTitle(entry.title)
                          /\ entry.duration # "" => tracks[j].duration = entry.duration
                          /\ tracks[j].duration \in {"5:37", "2:30", "8:30"}
             ELSE /\ Len(tracks) \in 4 .. 6
                  /\ \A j \in 1 .. Len(tracks) :
                        /\ tracks[j].number = j
                        /\ tracks[j].title = genericTrackNames[j]
                        /\ tracks[j].duration \in {"2:30", "8:30"}

\* a tracklist of a blank entry and a padded title gave the one titled track
C22_Witness ==
    /\ IsSome(output)
    /\ Len(input) = 2
    /\ input[1].title = " "
    /\ input[2].title = " Blue "
    /\ Len(Val(output)) = 1
    /\ Val(output)[1].number = 2
    /\ Val(output)[1].title = "Blue"

\* C23: two transformations give the same id exactly when they transform the
\* same catalog item, whatever the times and the list positions.
C23_StableId ==
    IsSome(output) =>
        ((Val(output)[1] = Val(output)[2]) <=> (input.first.it = input.second.it))

RECURSIVE SumOfPages(_, _)
\* the number of releases of the pages 1 .. n
SumOfPages(pg, n) == IF n = 0 THEN 0 ELSE SumOfPages(pg, n - 1) + Len(pg[n].releases)

\* C24: a request for a page 2 .. N exists only when page 1 has arrived and
\* reported N; a fetch that returned has N fulfilled page requests, and its
\* list holds the releases of all of them in page order, whatever the order in
\* which the requests settled.
C24_PageProtocol ==
    /\ \A q \in DOMAIN page :
          (q >= 2 /\ page[q].st # "none") => page[1].st = "fulfilled" /\ q <= totalPages
    /\ fetchPc = "returned" =>
          /\ Cardinality({q \in DOMAIN page : page[q].st = "fulfilled"}) = totalPages
          /\ Len(allReleases) = SumOfPages(page, totalPages)
          /\ \A i, j \in 1 .. Len(allReleases) : i < j => allReleases[i] < allReleases[j]
          /\ \A q \in 1 .. totalPages : \A i \in 1 .. Len(page[q].releases) :
                \E j \in 1 .. Len(allReleases) : allReleases[j] = page[q].releases[i]

\* three pages, two full and the last half full, fetched with page 3 arriving
\* before page 2
C24_Witness ==
    /\ fetchPc = "returned"
    /\ totalPages = 3
    /\ page[3].order < page[2].order
    /\ allReleases = <<1, 2, 3, 4, 5>>

\* the releases whose getRelease or getMasterRelease request is outstanding
BeingEnriched == {k \in DOMAIN item : item[k].pc \in {"getRelease", "getMaster"}}

\* C25: the releases being enriched all belong to one batch of 10 consecutive
\* releases, so at most 10 are being enriched at a time; while a release of a
\* batch is unfinished no release of a later batch has been started, and every
\* release of an earlier batch is finished.
C25_SequentialBatches ==
    /\ Cardinality(BeingEnriched) <= 10
    /\ \A k \in BeingEnriched : batchStart < k /\ k <= batchStart + 10
    /\ \A k \in DOMAIN item :
          /\ k > batchStart + 10 => item[k].pc = "pending"
          /\ k <= batchStart => item[k].pc = "done"
    /\ batchStart % 10 = 0

\* the release of the second batch is being fetched after the ten of the first
\* batch have finished, some of them degraded
C25_Witness ==
    /\ batchStart = 10
    /\ Len(item) = 11
    /\ item[11].pc = "getRelease"
    /\ \A k \in 1 .. 10 : item[k].pc = "done"
    /\ ~item[2].detailed
    /\ item[3].detailed

\* C26: isSyncing() is true exactly while some caller is inside
\* syncFromDiscogs; the step that ends a sync, by success or by the degraded
\* result of a failure or a cancellation, leaves the flag false, and a request
\* that reaches the guard while the flag is false is accepted; a request is
\* rejected only while another caller's sync is in flight, and the rejection
\* leaves that sync and its flag as they were.
C26_FlagRelease ==
    /\ [](isSync <=> \E c \in DOMAIN call : call[c].pc \in InSyncPcs)
    /\ [][\A c \in DOMAIN call :
            /\ (call[c].pc \in InSyncPcs /\ call'[c].pc \notin InSyncPcs)
                  => call'[c].pc = "returned" /\ ~isSync'
            /\ (~isSync /\ call[c].pc \in PreSyncPcs /\ call'[c].pc \in {"testConnection", "rejected"})
                  => call'[c].pc = "testConnection" /\ isSync'
            /\ (call[c].pc # "rejected" /\ call'[c].pc = "rejected")
                  => /\ isSync /\ isSync'
                     /\ \E d \in DOMAIN call \ {c} : call[d].pc \in InSyncPcs /\ call'[d] = call[d]]_vars

\* a request was rejected during a sync that has since ended in a failure, and
\* the flag is clear
C26_Witness ==
    \E c, d \in DOMAIN call :
        /\ call[c].pc = "rejected"
        /\ call[d].pc = "returned" /\ ~Val(call[d].result).success
        /\ ~isSync

LastError(r) == IF r.errors = <<>> THEN "" ELSE r.errors[Len(r.errors)]

\* C27: the cancellation flag is read only at the checkpoint after the
\* collection fetch. A cancellation request changes nothing but the flag; with
\* the flag set, a sync that is past the checkpoint goes on from enrichment
\* (whose requests have run) to the cache write, and from the cache write to
\* a successful result with the cache written, or to the failure of the write
\* itself; 'Sync cancelled by user' is raised nowhere but at the checkpoint.
C27_PolledAtCheckpoint ==
    [][/\ (cancelSync' /\ ~cancelSync) => (call' = call /\ storeRecords' = storeRecords /\ storeMeta' = storeMeta)
       /\ \A c \in DOMAIN call :
            /\ (call'[c].errors # call[c].errors /\ LastError(call'[c]) = "Sync cancelled by user")
                  => call[c].pc = "getAll" /\ cancelSync
            /\ (cancelSync /\ call[c].pc = "enrich" /\ call'[c] # call[c])
                  => /\ call'[c].pc = "cacheCollection"
                     /\ call'[c].remote = call[c].remote + 1
                     /\ call'[c].writes = 1
            /\ (cancelSync /\ call[c].pc = "cacheCollection" /\ call'[c] # call[c])
                  => \/ /\ call'[c].pc = "returned"
                        /\ call'[c].result =
                             Some(SyncResult(TRUE, Len(call[c].valid), call[c].errors, FALSE))
                        /\ call'[c].records = call[c].valid
                        /\ storeRecords' = Some(call[c].valid)
                        /\ storeMeta' = Some(Metadata(call[c].lastSync, Len(call[c].valid)))
                     \/ /\ call'[c].pc = "fallback"
                        /\ LastError(call'[c]) = "Failed to cache collection data"]_vars

\* a sync that went through enrichment is writing the cache with the
\* cancellation flag set
C27_Witness ==
    \E c \in DOMAIN call :
        /\ call[c].pc = "cacheCollection"
        /\ call[c].remote = 3
        /\ Len(call[c].valid) > 0
        /\ cancelSync

\* C28: the cancellation flag is set only while a sync is in flight: no step
\* taken while no sync is in flight sets it, a step that sets it changes
\* nothing else, and it is false when a sync starts and when a sync ends, so
\* that a sync is cancelled only by a request made during that sync.
C28_NoLeak ==
    /\ [](cancelSync => isSync)
    /\ [][/\ (cancelSync' /\ ~cancelSync)
               => (isSync /\ isSync' /\ call' = call /\ storeRecords' = storeRecords /\ storeMeta' = storeMeta)
          /\ \A c \in DOMAIN call :
               /\ (call[c].pc \in PreSyncPcs /\ call'[c].pc = "testConnection") => ~cancelSync'
               /\ (call[c].pc \in InSyncPcs /\ call'[c].pc = "returned") => ~cancelSync']_vars

\* a cancelled sync has ended, and the other caller's later sync has passed the
\* checkpoint with the flag clear
C28_Witness ==
    \E c, d \in DOMAIN call :
        /\ call[c].pc = "returned"
        /\ "Sync cancelled by user" \in SeqRange(Val(call[c].result).errors)
        /\ call[d].pc = "enrich"
        /\ ~cancelSync

\* C29: when a sync has failed and the stored record list exists and is
\* non-empty, the call returns exactly the stored list as a degraded result
\* (success = false, fromCache = true, recordsProcessed = its length); the
\* condition reads neither the metadata nor the clock, so this holds for a
\* cache within its TTL and for an expired one alike.
C29_StaleFallback ==
    [][\A c \in DOMAIN call :
         (call[c].pc = "fallback" /\ call'[c] # call[c] /\ NonEmptyList)
            => /\ call'[c].pc = "returned"
               /\ call'[c].records = Val(storeRecords)
               /\ ~Val(call'[c].result).success
               /\ Val(call'[c].result).fromCache
               /\ Val(call'[c].result).recordsProcessed = Len(Val(storeRecords))]_vars

\* a call without forceRefresh found the cache expired, its sync failed before
\* any cache write, and it returned the expired list
C29_Witness ==
    \E c \in DOMAIN call :
        /\ call[c].pc = "returned" /\ ~call[c].forceRefresh
        /\ call[c].remote >= 1 /\ call[c].writes = 0
        /\ ~Val(call[c].result).success /\ Val(call[c].result).fromCache
        /\ call[c].records = Val(storeRecords)
        /\ IsSome(storeMeta) /\ ~IsCacheValid(storeMeta, now)

NoReleases == "No releases found in your Discogs collection"

\* C30: a sync never enriches an empty collection: a fetch that returns zero
\* items raises 'No releases found' at the checkpoint after the fetch, before
\* any cache write, and leaves the store as it was; the call then returns a
\* failure that carries the message, together with the stored list when there
\* is one, and has written nothing.
C30_EmptyCollection ==
    /\ [](\A c \in DOMAIN call :
            /\ call[c].pc = "enrich" => Len(call[c].releases) > 0
            /\ (call[c].pc = "fallback" /\ LastError(call[c]) = NoReleases) => call[c].writes = 0)
    /\ [][\A c \in DOMAIN call :
            /\ (call'[c].errors # call[c].errors /\ LastError(call'[c]) = NoReleases)
                  => /\ call[c].pc = "getAll" /\ call'[c].pc = "fallback"
                     /\ storeRecords' = storeRecords /\ storeMeta' = storeMeta
            /\ (call[c].pc = "fallback" /\ LastError(call[c]) = NoReleases /\ call'[c] # call[c])
                  => /\ call'[c].pc = "returned"
                     /\ ~Val(call'[c].result).success
                     /\ Val(call'[c].result).errors = call[c].errors
                     /\ call'[c].records = IF IsSome(storeRecords) THEN Val(storeRecords) ELSE <<>>
                     /\ Val(call'[c].result).fromCache = NonEmptyList
                     /\ call'[c].writes = 0
                     /\ storeRecords' = storeRecords /\ storeMeta' = storeMeta]_vars

\* the remote collection was empty and the call returned the records cached by
\* an earlier sync
C30_Witness ==
    \E c \in DOMAIN call :
        /\ call[c].pc = "returned"
        /\ ~Val(call[c].result).success /\ Val(call[c].result).fromCache
        /\ Val(call[c].result).errors = <<NoReleases>>
        /\ call[c].writes = 0
        /\ Len(call[c].records) > 0
        /\ call[c].records = Val(storeRecords)

\* the step is a call of updateCachedRecord or removeCachedRecord
UpdateOrRemoveStep ==
    /\ now' = now
    /\ lastOp'.op \in {"updateCachedRecord", "removeCachedRecord"}

\* C31: a call of updateCachedRecord or removeCachedRecord made when no record
\* list is stored, or with an id that no stored record has, throws and leaves
\* the stored list and the metadata as they were.
C31_MutationErrors ==
    [][(/\ UpdateOrRemoveStep
        /\ \/ ~IsSome(storeRecords)
           \/ lastOp'.id \notin SeqIds(Val(storeRecords)))
          => /\ lastOp'.threw
             /\ storeRecords' = storeRecords
             /\ storeMeta' = storeMeta]_vars

\* removeCachedRecord has thrown for an id that the non-empty stored list does
\* not hold
C31_Witness ==
    /\ lastOp.op = "removeCachedRecord" /\ lastOp.threw
    /\ NonEmptyList
    /\ IsSome(storeMeta)
    /\ lastOp.id \notin SeqIds(Val(storeRecords))

\* C32: addCachedRecord replaces the entry with the same id in place, leaving
\* the length unchanged, or appends a record with a new id; and after any
\* sequence of cacheCollection, add, update and remove calls, which starts from
\* lists with unique ids, the stored list holds no two entries with the same id.
C32_UniqueIds ==
    /\ [](IsSome(storeRecords) => DistinctIds(Val(storeRecords)))
    /\ [][(now' = now /\ lastOp'.op = "addCachedRecord" /\ ~lastOp'.threw /\ IsSome(storeRecords))
             => LET old == Val(storeRecords)
                    new == Val(storeRecords')
                IN IF lastOp'.id \in SeqIds(old)
                   THEN /\ Len(new) = Len(old)
                        /\ \A i \in 1 .. Len(old) :
                              /\ new[i].id = old[i].id
                              /\ old[i].id # lastOp'.id => new[i] = old[i]
                   ELSE /\ Len(new) = Len(old) + 1
                        /\ new[Len(new)].id = lastOp'.id
                        /\ \A i \in 1 .. Len(old) : new[i] = old[i]]_vars

\* C33: exportCache returns a snapshot exactly when the record list and the
\* metadata are both stored; an importCache of that snapshot that does not
\* throw leaves the stored list as it was and stores metadata whose
\* totalRecords is the length of the list and whose lastSync is the time of
\* the import, so that isCacheValid holds afterwards.
C33_RoundTrip ==
    [][(now' = now /\ lastOp'.op = "importCache(exportCache())")
          => LET snapshot == ExportCache(storeRecords, storeMeta) IN
               /\ IsSome(snapshot) <=> (IsSome(storeRecords) /\ IsSome(storeMeta))
               /\ IsSome(snapshot) => /\ Val(snapshot).records = Val(storeRecords)
                                     /\ Val(snapshot).metadata = storeMeta
               /\ ~lastOp'.threw
                     => /\ IsSome(snapshot)
                        /\ storeRecords' = storeRecords
                        /\ storeMeta' = Some(Metadata(now, Len(Val(storeRecords))))
                        /\ IsCacheValid(storeMeta', now')]_vars

\* a non-empty cache was exported and imported again after the clock had
\* advanced by the expiry time, and the metadata carries the current time
C33_Witness ==
    /\ lastOp.op = "importCache(exportCache())" /\ ~lastOp.threw
    /\ NonEmptyList
    /\ now >= CACHE_EXPIRY_HOURS
    /\ storeMeta = Some(Metadata(now, Len(Val(storeRecords))))

\* the step is a call of clearCache
ClearStep == call' = call /\ cancelSync' = cancelSync /\ lastOp'.op = "clearCache"

C35_Termination ==
    /\ \A r \in Requests :
          (r \in DOMAIN req /\ req[r].pc = "queued")
             ~> (/\ r \in DOMAIN req
                 /\ req[r].pc \in {"resolved", "rejected"}
                 /\ req[r].attempts <= 1 + retries)
    /\ (fetchPc \in {"firstPage", "remaining"}) ~> (fetchPc \in {"returned", "rejected"})
    /\ (enrichPc = "loop") ~> (enrichPc = "returned")
    /\ \A c \in OneCaller :
          (c \in DOMAIN call /\ call[c].pc \in InSyncPcs)
             ~> (/\ c \in DOMAIN call
                 /\ call[c].pc = "returned"
                 /\ IsSome(call[c].result)
                 /\ LastPhase(call[c]) \in {"complete", "error"})

\* a sync that went through the fetch and the enrichment has returned its result
C35_Witness ==
    \E c \in DOMAIN call :
        /\ call[c].pc = "returned"
        /\ call[c].remote = 3
        /\ IsSome(call[c].result)
        /\ LastPhase(call[c]) = "complete"

\* C36: at most one run of the hook's syncFromDiscogs is between its start and
\* its finally block at any time.
C36_SinglePipeline == Cardinality(RunningPipelines) <= 1

\* C37: while a sync of the service that a syncCollection call started is in
\* flight, isLoading is true, and no other syncCollection call has reached
\* the sync service.
C37_LoadingWhileInFlight ==
    \A c \in DOMAIN hookPc :
        (hookPc[c] = "called" /\ call[c].pc \in InSyncPcs)
           => /\ isLoading
              /\ \A d \in DOMAIN hookPc \ {c} : call[d].pc = "idle"

NoDuplicates(history) == \A i, j \in 1 .. Len(history) : history[i] = history[j] => i = j

DeepCutsStep ==
    /\ lastPick'.calls = lastPick.calls + 1
    /\ lastPick'.mode = "deep-cuts"

CollectionIds == {Collection(lastPick.n)[i].id : i \in 1 .. lastPick.n}

\* C39 as stated: in 'deep-cuts' mode the returned record is never one of the
\* 5 most recently suggested; here for the single most recent suggestion and a
\* collection of more than 5 records, which cannot all be among those 5.
C39_Original ==
    [][(/\ DeepCutsStep
        /\ lastPick'.prev # 0
        /\ lastPick.n > 5)
          => lastPick'.record # lastPick'.prev]_vars

\* C39 amended: in 'deep-cuts' mode the returned record is never one of the
\* first 5 ids of the history as getSuggestionHistory reads it (the stored
\* list, or the empty list when getItem throws), unless every record of the
\* collection is among them, and then some record of the collection is still
\* returned.
C39_DeepCuts ==
    [][(DeepCutsStep /\ lastPick.n > 0)
          => LET recentIds == Ids(GetSuggestionHistory, 1, RecentCount) IN
               /\ lastPick'.record \in CollectionIds
               /\ (CollectionIds \ recentIds # {}) => lastPick'.record \notin recentIds]_vars

\* every record of the collection was among the recent ids and one of them
\* was returned
C39_Witness ==
    /\ storageMode = "ok"
    /\ lastPick.mode = "deep-cuts"
    /\ lastPick.calls = 1
    /\ lastPick.n = SmallCollection
    /\ lastPick.record \in 1 .. SmallCollection
    /\ Len(suggestionHistory) = SmallCollection

====
